---------------------------- MODULE Spec2Model ----------------------------
(***************************************************************************)
(* A model of two parts of the Lightdash backend:                          *)
(*                                                                         *)
(*  - the user-attribute access filter (hasUserAttribute,                  *)
(*    hasUserAttributes, exploreHasFilteredAttribute,                      *)
(*    filterDimensionsFromExplore), run by several users against one       *)
(*    shared compiled Explore that lives in a heap of objects;             *)
(*  - the CSV export service (CsvService).                                 *)
(*                                                                         *)
(* JavaScript objects are heap cells named by an address; an object that   *)
(* is used as a map keeps its entries in insertion order, which is the     *)
(* order Object.entries and Object.values enumerate.                       *)
(***************************************************************************)
EXTENDS Integers, Sequences, FiniteSets, TLC

VARIABLES
    heap,          \* address -> object: every object allocated so far
    compiledHeap,  \* the heap as the compiler left it (history variable)
    call,          \* user -> the user's filterDimensionsFromExplore call
    probe,         \* the last exploreHasFilteredAttribute evaluation
    lightdashConfig, \* CsvService.lightdashConfig and s3Service.isEnabled()
    results,       \* the rows at hand (those the warehouse returns for the
                   \* query of a download): their number, the keys of a row
    truncation,    \* the last couldBeTruncated evaluation
    download,      \* the downloadCsv call in progress
    sqlDownload,   \* the downloadSqlCsv call in progress
    tmp,           \* the files under /tmp: file id -> file
    bucket,        \* the object storage: file id -> content
    events,        \* the analytics events tracked, in order
    chart,         \* tile -> the getCsvForChart call of the tile
    timers,        \* the setTimeout callbacks waiting: file id and due time
    fileIdCall,    \* the last generateFileId evaluation
    clock,         \* moment(): the time now, in milliseconds
    queries,       \* the queries run against the warehouse, in order
    scheduler,     \* the scheduleDownloadCsv call and the queue of
                   \* schedulerClient
    cellCall,      \* the last convertRowToCsv evaluation
    hook           \* the component that uses useMetricFlowQueryResults:
                   \* its two react-query queries and its timer

filterVars == <<heap, compiledHeap, call, probe>>

truncationVars == <<results, truncation>>

exportVars == <<download, sqlDownload, chart, timers, tmp, bucket, events, clock,
                queries, scheduler>>

\* Everything but the state of the exports.
restVars == <<heap, compiledHeap, call, probe, lightdashConfig, results,
              truncation, fileIdCall, cellCall, hook>>

csvVars == <<lightdashConfig, results, truncation, fileIdCall,
             download, sqlDownload, chart, timers, tmp, bucket, events, clock,
             queries, scheduler, cellCall, hook>>

vars == <<heap, compiledHeap, call, probe, lightdashConfig, results,
          truncation, fileIdCall, download, sqlDownload, chart, timers,
          tmp, bucket, events, clock, queries, scheduler, cellCall, hook>>

-----------------------------------------------------------------------------
(* Bounds of the model.                                                    *)

\* The base table of the shared explore has 0..MaxDims dimensions.
MaxDims == 2

\* A small result set has 0..MaxRows rows of 1..MaxColumns columns.
MaxRows == 3

MaxColumns == 3

\* A small configured csvCellsLimit is one of 1..MaxCellsLimit.
MaxCellsLimit == 8

-----------------------------------------------------------------------------
(* Values.                                                                 *)

Undefined == "undefined"

Users == {"u1", "u2"}

DimensionNames == <<"d1", "d2", "d3", "d4">>

\* requiredAttributes: Record<string, string> | undefined.  A defined map
\* keeps its (attributeName, value) entries in insertion order.
NoRequiredAttributes == [defined |-> FALSE, entries |-> <<>>]

RequiredAttributes(entries) == [defined |-> TRUE, entries |-> entries]

RequiredAttributesChoices ==
    { NoRequiredAttributes,
      RequiredAttributes(<<>>),
      RequiredAttributes(<< <<"region", "emea">> >>),
      RequiredAttributes(<< <<"region", "emea">>, <<"team", "sales">> >>) }

\* UserAttributeValueMap: attribute name -> value, for the attributes the
\* user has.
UserAttributeChoices ==
    { <<>>,
      [a \in {"region"} |-> "emea"],
      [a \in {"region"} |-> "apac"],
      [a \in {"region", "team"} |-> IF a = "region" THEN "emea" ELSE "sales"] }

\* userAttributes[attributeName]: undefined for a missing key.
Lookup(userAttributes, attributeName) ==
    IF attributeName \in DOMAIN userAttributes
    THEN userAttributes[attributeName]
    ELSE Undefined

-----------------------------------------------------------------------------
(* Heap objects.                                                           *)

NoAddress == <<"none", 0>>

\* The next free address of an owner: the owner and a serial number.
Alloc(h, owner) == <<owner, Cardinality({a \in DOMAIN h : a[1] = owner}) + 1>>

EmptyObject == [kind |-> "Object", entries |-> <<>>]   \* {}

EmptyArray == [kind |-> "Array", entries |-> <<>>]     \* []

Entry(key, val) == [key |-> key, val |-> val]

\* Object.entries(o) and Object.values(o)
ObjectEntries(o) == o.entries

ObjectValues(o) == [i \in 1..Len(o.entries) |-> o.entries[i].val]

HasKey(o, key) == \E i \in 1..Len(o.entries) : o.entries[i].key = key

\* { ...o, [key]: val }: a new plain object with the own enumerable
\* properties of o and then key set to val (an existing key keeps its
\* place).
SpreadSet(o, key, val) ==
    [kind |-> "Object",
     entries |->
        IF HasKey(o, key)
        THEN [i \in 1..Len(o.entries) |->
                IF o.entries[i].key = key THEN Entry(key, val)
                ELSE o.entries[i]]
        ELSE Append(o.entries, Entry(key, val))]

Dimension(name, required) ==
    [name |-> name, fieldType |-> "dimension", requiredAttributes |-> required]

Metric(name, required) ==
    [name |-> name, fieldType |-> "metric", requiredAttributes |-> required]

-----------------------------------------------------------------------------
(* The shared compiled explores the model starts from: base table orders,  *)
(* joined table customers.                                                 *)

DimensionMaps(max) ==
    UNION { { [kind |-> "Object",
               entries |-> [i \in 1..n |->
                              Entry(DimensionNames[i],
                                    Dimension(DimensionNames[i], req[i]))]]
              : req \in [1..n -> RequiredAttributesChoices] }
            : n \in 0..max }

\* The joined table has no dimension or one.
JoinedDimensionMaps == DimensionMaps(1)

Compiler == "compiler"

SharedExplore == <<Compiler, 1>>

CompiledHeap(ordersDims, customersDims) ==
    (<<Compiler, 1>> :>
        [kind |-> "Explore", name |-> "orders", baseTable |-> "orders",
         joinedTables |-> <<"customers">>, tables |-> <<Compiler, 2>>])
    @@ (<<Compiler, 2>> :>
        [kind |-> "Object",
         entries |-> << Entry("orders", <<Compiler, 3>>),
                        Entry("customers", <<Compiler, 6>>) >>])
    @@ (<<Compiler, 3>> :>
        [kind |-> "Table", name |-> "orders",
         dimensions |-> <<Compiler, 4>>, metrics |-> <<Compiler, 5>>])
    @@ (<<Compiler, 4>> :> ordersDims)
    @@ (<<Compiler, 5>> :>
        [kind |-> "Object",
         entries |-> << Entry("revenue",
                              Metric("revenue",
                                     RequiredAttributes(
                                        << <<"region", "emea">> >>))) >>])
    @@ (<<Compiler, 6>> :>
        [kind |-> "Table", name |-> "customers",
         dimensions |-> <<Compiler, 7>>, metrics |-> <<Compiler, 8>>])
    @@ (<<Compiler, 7>> :> customersDims)
    @@ (<<Compiler, 8>> :>
        [kind |-> "Object",
         entries |-> << Entry("count",
                              Metric("count", NoRequiredAttributes)) >>])

-----------------------------------------------------------------------------
(* userAttributesUtils                                                     *)

hasUserAttribute(userAttributes, attributeName, value) ==
    Lookup(userAttributes, attributeName) = value

\* Faulty variant: Array.prototype.some in place of every.
hasUserAttributesSome(requiredAttributes, userAttributes) ==
    IF ~requiredAttributes.defined THEN TRUE
    ELSE \E i \in 1..Len(requiredAttributes.entries) :
            hasUserAttribute(userAttributes,
                             requiredAttributes.entries[i][1],
                             requiredAttributes.entries[i][2])

\* Array.prototype.every over Object.entries(requiredAttributes)
hasUserAttributes(requiredAttributes, userAttributes) ==
    IF ~requiredAttributes.defined THEN TRUE
    ELSE \A i \in 1..Len(requiredAttributes.entries) :
            hasUserAttribute(userAttributes,
                             requiredAttributes.entries[i][1],
                             requiredAttributes.entries[i][2])

\* Array.prototype.some, left to right
RECURSIVE SomeDimensionFiltered(_, _)
SomeDimensionFiltered(dimensions, i) ==
    IF i > Len(dimensions) THEN FALSE
    ELSE IF dimensions[i].requiredAttributes.defined THEN TRUE
    ELSE SomeDimensionFiltered(dimensions, i + 1)

RECURSIVE SomeTableFiltered(_, _, _)
SomeTableFiltered(h, tables, i) ==
    IF i > Len(tables) THEN FALSE
    ELSE IF SomeDimensionFiltered(
                ObjectValues(h[h[tables[i]].dimensions]), 1) THEN TRUE
    ELSE SomeTableFiltered(h, tables, i + 1)

RECURSIVE SomeFieldFiltered(_, _, _)
SomeFieldFiltered(h, tables, i) ==
    IF i > Len(tables) THEN FALSE
    ELSE IF \/ SomeDimensionFiltered(
                  ObjectValues(h[h[tables[i]].dimensions]), 1)
            \/ SomeDimensionFiltered(
                  ObjectValues(h[h[tables[i]].metrics]), 1) THEN TRUE
    ELSE SomeFieldFiltered(h, tables, i + 1)

\* Faulty variant: the metrics of a table are looked at as well.
exploreHasFilteredAttributeOrMetric(h, explore) ==
    SomeFieldFiltered(h, ObjectValues(h[h[explore].tables]), 1)

exploreHasFilteredAttribute(h, explore) ==
    SomeTableFiltered(h, ObjectValues(h[h[explore].tables]), 1)

\* { [key]: val, ...o }
SetSpread(o, key, val) ==
    [kind |-> "Object",
     entries |->
        IF HasKey(o, key)
        THEN <<CHOOSE e \in {o.entries[i] : i \in 1..Len(o.entries)} :
                    e.key = key>>
             \o SelectSeq(o.entries, LAMBDA e : e.key # key)
        ELSE <<Entry(key, val)>> \o o.entries]

\* Faulty variant: the kept dimension is put before the accumulator's entries,
\* { [dimensionName]: dimension, ...acc }.
dimensionsReducerPrepend(acc, tableDimension, userAttributes) ==
    IF hasUserAttributes(tableDimension.val.requiredAttributes, userAttributes)
    THEN SetSpread(acc, tableDimension.key, tableDimension.val)
    ELSE acc

\* The callback of the inner reduce: keep the dimension when the user has
\* its required attributes.
dimensionsReducer(acc, tableDimension, userAttributes) ==
    IF hasUserAttributes(tableDimension.val.requiredAttributes, userAttributes)
    THEN SpreadSet(acc, tableDimension.key, tableDimension.val)
    ELSE acc

\* Array.prototype.reduce(callback, initialValue) over the entries from i on
RECURSIVE ReduceDimensions(_, _, _, _)
ReduceDimensions(acc, entries, i, userAttributes) ==
    IF i > Len(entries) THEN acc
    ELSE ReduceDimensions(dimensionsReducer(acc, entries[i], userAttributes),
                          entries, i + 1, userAttributes)

\* Faulty variant: the dimensions object of the table is overwritten in place and
\* the table itself is put in the accumulator.
tablesReducerInPlace(h, at, exploreTable, userAttributes, owner) ==
    LET table == h[exploreTable.val]
        dimensions == ReduceDimensions(
                          EmptyArray,
                          ObjectEntries(h[table.dimensions]),
                          1, userAttributes)
    IN  [heap |-> [h EXCEPT ![table.dimensions] = dimensions],
         at |-> SpreadSet(at, exploreTable.key, exploreTable.val)]

\* Faulty variant: the metrics are filtered by their required attributes too.
tablesReducerFilterMetrics(h, at, exploreTable, userAttributes, owner) ==
    LET table == h[exploreTable.val]
        dimensions == ReduceDimensions(
                          EmptyArray,
                          ObjectEntries(h[table.dimensions]),
                          1, userAttributes)
        metrics == ReduceDimensions(
                          EmptyArray,
                          ObjectEntries(h[table.metrics]),
                          1, userAttributes)
        dAddr == Alloc(h, owner)
        h1 == h @@ (dAddr :> dimensions)
        mAddr == Alloc(h1, owner)
        h2 == h1 @@ (mAddr :> metrics)
        tAddr == Alloc(h2, owner)
        h3 == h2 @@ (tAddr :> [table EXCEPT !.dimensions = dAddr,
                                            !.metrics = mAddr])
    IN  [heap |-> h3, at |-> SpreadSet(at, exploreTable.key, tAddr)]

\* The callback of the outer reduce: a new table object, a copy of the
\* table with a new dimensions object, set under tableName in a copy of at.
\* Returns the heap with the two new objects and the new accumulator.
tablesReducer(h, at, exploreTable, userAttributes, owner) ==
    LET table == h[exploreTable.val]
        dimensions == ReduceDimensions(
                          EmptyArray,
                          ObjectEntries(h[table.dimensions]),
                          1, userAttributes)
        dAddr == Alloc(h, owner)
        h1 == h @@ (dAddr :> dimensions)
        tAddr == Alloc(h1, owner)
        h2 == h1 @@ (tAddr :> [table EXCEPT !.dimensions = dAddr])
    IN  [heap |-> h2, at |-> SpreadSet(at, exploreTable.key, tAddr)]

\* { ...explore, tables: at }
exploreWithTables(h, explore, at, owner) ==
    LET mAddr == Alloc(h, owner)
        h1 == h @@ (mAddr :> at)
        eAddr == Alloc(h1, owner)
    IN  [heap |-> h1 @@ (eAddr :> [h[explore] EXCEPT !.tables = mAddr]),
         result |-> eAddr]

-----------------------------------------------------------------------------
(* Calls of filterDimensionsFromExplore.  JavaScript runs one call to      *)
(* completion; the model lets calls of different users interleave between  *)
(* two iterations of the outer reduce, which allows every schedule the     *)
(* runtime has and more.                                                   *)

IdleCall ==
    [pc |-> "idle", input |-> NoAddress, userAttributes |-> <<>>,
     entries |-> <<>>, i |-> 0, at |-> EmptyObject,
     first |-> NoAddress, result |-> NoAddress]

\* CsvService: configuration and result sets.

\* A value that may be undefined.
NotSet == [defined |-> FALSE, value |-> 0]

Set(v) == [defined |-> TRUE, value |-> v]

\* a || b on numbers: b when a is undefined or 0.
OrElse(a, b) == IF a.defined /\ a.value # 0 THEN a.value ELSE b

DefaultCellsLimit == 100000

FieldNames ==
    <<"orders_status", "orders_count", "orders_total", "customers_country",
      "customers_name", "customers_age", "orders_date", "orders_tax",
      "orders_margin", "customers_city", "customers_zip">>

\* Rows of a warehouse result: n rows, each with the same keys.
Rows(n, keys) == [n |-> n, keys |-> keys]

SmallResults ==
    {Rows(0, <<>>)}
    \cup {Rows(n, SubSeq(FieldNames, 1, c)) : n \in 1..MaxRows, c \in 1..MaxColumns}

\* Ten-column results around floor(100000 / 10) rows.
LargeResults == {Rows(n, SubSeq(FieldNames, 1, 10)) : n \in {9998, 9999, 10000}}

\* lightdashConfig.query?.csvCellsLimit: undefined, a small limit, or
\* the default written out.
CellsLimitChoices ==
    {NotSet, Set(DefaultCellsLimit)} \cup {Set(l) : l \in 1..MaxCellsLimit}

TruncationIdle ==
    /\ results = Rows(0, <<>>)
    /\ truncation = [called |-> FALSE, value |-> FALSE]

\* Record<string, string> | undefined
NoLabels == [defined |-> FALSE, labels |-> <<>>]

Labels(l) == [defined |-> TRUE, labels |-> l]

EmptyQuery == [dimensions |-> <<>>, metrics |-> <<>>, tableCalculations |-> <<>>]

NoFileId == <<>>

NoPipeline ==
    [threw |-> FALSE, fileId |-> NoFileId, sortedFieldIds |-> <<>>,
     csvHeader |-> <<>>, source |-> 0, workers |-> <<>>]

\* A promise: pending, or settled with a value or an error.
PendingPromise == [state |-> "pending", value |-> <<>>]

IdleDownload ==
    [pc |-> "idle", metricQuery |-> EmptyQuery, columnOrder |-> <<>>,
     customLabels |-> NoLabels, showTableNames |-> FALSE, onlyRaw |-> FALSE,
     rows |-> Rows(0, <<>>), truncated |-> FALSE, pipeline |-> NoPipeline,
     calledAt |-> 0, writePromise |-> PendingPromise, transformed |-> 0,
     streamError |-> "none",
     fileUrl |-> <<>>, error |-> "none"]

NoConversion == [thread |-> "none", mainThreadCalls |-> 0, workers |-> <<>>]

NoCsv == [threw |-> FALSE, header |-> <<>>, body |-> 0]

IdleSqlDownload ==
    [pc |-> "idle", customLabels |-> NoLabels, results |-> Rows(0, <<>>),
     conversion |-> NoConversion, csvContent |-> NoCsv,
     fileUrl |-> <<>>, error |-> "none"]

\* The tiles of a dashboard.
Tiles == {"t1", "t2"}

NoChart ==
    [uuid |-> "none", name |-> <<>>, metricQuery |-> EmptyQuery,
     columnOrder |-> <<>>, customLabels |-> NoLabels,
     showTableNames |-> FALSE]

NoAttachment ==
    [filename |-> <<>>, path |-> <<>>, localPath |-> <<>>, truncated |-> FALSE]

IdleChartExport ==
    [pc |-> "idle", hasJobId |-> FALSE, onlyRaw |-> FALSE, chart |-> NoChart,
     rows |-> Rows(0, <<>>), truncated |-> FALSE, pipeline |-> NoPipeline,
     calledAt |-> 0, writePromise |-> PendingPromise, transformed |-> 0,
     streamError |-> "none", uploadedAt |-> 0,
     attachment |-> NoAttachment, error |-> "none"]

IdleFileIdCall ==
    [called |-> FALSE, fileName |-> <<>>, truncated |-> FALSE, time |-> 0,
     value |-> <<>>]

\* scheduleDownloadCsv is not called ("off"), and no job is queued.
IdleScheduler == [pc |-> "off", jobs |-> <<>>, error |-> "none"]

\* convertRowToCsv is not called.
IdleCellCall ==
    [called |-> FALSE, row |-> <<>>, itemMap |-> <<>>, onlyRaw |-> FALSE,
     sortedFieldIds |-> <<>>, value |-> <<>>]

\* A query of react-query that has not fetched: the create-query request
\* (its data is the query id) and the results request (its data is the
\* status of the MetricFlow query).
IdleCreateQuery ==
    [status |-> "idle", data |-> NotSet, error |-> "null",
     isFetching |-> FALSE]

IdleResultsQuery ==
    [status |-> "idle", data |-> Undefined, error |-> "null",
     isFetching |-> FALSE]

\* No setInterval is running.
NoTimer == [period |-> 0, elapsed |-> 0]

\* The component that uses the hook is not mounted.
IdleHook ==
    [mounted |-> FALSE, projectUuid |-> FALSE, metrics |-> 0,
     metricFlowQuery |-> IdleCreateQuery,
     metricFlowQueryResultsQuery |-> IdleResultsQuery,
     queryKey |-> NotSet, interval |-> NoTimer,
     created |-> 0, requests |-> <<>>]

CellsIdle == cellCall = IdleCellCall

HookIdle == hook = IdleHook

\* Nothing is written, uploaded or tracked yet.
EmptyStores ==
    /\ timers = {}
    /\ tmp = <<>>
    /\ bucket = <<>>
    /\ events = <<>>
    /\ clock = 0
    /\ queries = <<>>

NoExport ==
    /\ download = IdleDownload
    /\ sqlDownload = IdleSqlDownload
    /\ chart = [t \in Tiles |-> IdleChartExport]
    /\ scheduler = IdleScheduler
    /\ EmptyStores

ExportIdle ==
    /\ NoExport
    /\ fileIdCall = IdleFileIdCall

CsvIdle ==
    /\ lightdashConfig = [csvCellsLimit |-> NotSet, s3Enabled |-> FALSE]
    /\ TruncationIdle
    /\ ExportIdle
    /\ CellsIdle
    /\ HookIdle

FilterIdle ==
    /\ heap = <<>>
    /\ compiledHeap = <<>>
    /\ call = [u \in Users |-> IdleCall]
    /\ probe = [asked |-> FALSE, explore |-> NoAddress, value |-> FALSE]

InitFilter ==
    /\ \E ordersDims \in DimensionMaps(MaxDims) :
       \E customersDims \in JoinedDimensionMaps :
            heap = CompiledHeap(ordersDims, customersDims)
    /\ compiledHeap = heap
    /\ call = [u \in Users |-> IdleCall]
    /\ probe = [asked |-> FALSE, explore |-> NoAddress, value |-> FALSE]
    /\ CsvIdle

\* filterDimensionsFromExplore(explore, userAttributes) is entered:
\* Object.entries(explore.tables) is taken and the reduce starts from {}.
StartCall(u, explore, userAttributes) ==
    call' = [call EXCEPT ![u] =
                [@ EXCEPT !.pc = "reduce", !.input = explore,
                          !.userAttributes = userAttributes,
                          !.entries = ObjectEntries(heap[heap[explore].tables]),
                          !.i = 0, !.at = EmptyObject]]

CallFilter(u) ==
    /\ call[u].pc = "idle"
    /\ \E userAttributes \in UserAttributeChoices :
            StartCall(u, SharedExplore, userAttributes)
    /\ UNCHANGED <<heap, compiledHeap, probe>>
    /\ UNCHANGED csvVars

\* One iteration of the outer reduce.
ReduceTable(u) ==
    /\ call[u].pc = "reduce"
    /\ call[u].i < Len(call[u].entries)
    /\ LET r == tablesReducer(heap, call[u].at, call[u].entries[call[u].i + 1],
                              call[u].userAttributes, u)
       IN  /\ heap' = r.heap
           /\ call' = [call EXCEPT ![u] = [@ EXCEPT !.i = @ + 1, !.at = r.at]]
    /\ UNCHANGED <<compiledHeap, probe>>
    /\ UNCHANGED csvVars

\* The reduce is over: the new explore is built and returned.
ReturnFilter(u) ==
    /\ call[u].pc = "reduce"
    /\ call[u].i = Len(call[u].entries)
    /\ LET r == exploreWithTables(heap, call[u].input, call[u].at, u)
       IN  /\ heap' = r.heap
           /\ call' = [call EXCEPT ![u] =
                          [@ EXCEPT !.pc = "done", !.result = r.result]]
    /\ UNCHANGED <<compiledHeap, probe>>
    /\ UNCHANGED csvVars

\* The same user filters the explore it was returned, with the same
\* attributes.
FilterAgain(u) ==
    /\ call[u].pc = "done"
    /\ call[u].first = NoAddress
    /\ call' = [call EXCEPT ![u] =
                  [@ EXCEPT !.pc = "reduce", !.input = call[u].result,
                            !.first = call[u].result,
                            !.entries =
                              ObjectEntries(heap[heap[call[u].result].tables]),
                            !.i = 0, !.at = EmptyObject,
                            !.result = NoAddress]]
    /\ UNCHANGED <<heap, compiledHeap, probe>>
    /\ UNCHANGED csvVars

NextFilter ==
    \E u \in Users :
        \/ CallFilter(u)
        \/ ReduceTable(u)
        \/ ReturnFilter(u)
        \/ FilterAgain(u)

SpecFilter == InitFilter /\ [][NextFilter]_vars

\* exploreHasFilteredAttribute(explore) is evaluated on the shared explore.
AskFiltered ==
    /\ ~probe.asked
    /\ probe' = [asked |-> TRUE, explore |-> SharedExplore,
                 value |-> exploreHasFilteredAttribute(heap, SharedExplore)]
    /\ UNCHANGED <<heap, compiledHeap, call>>
    /\ UNCHANGED csvVars

NextProbe == AskFiltered

SpecProbe == InitFilter /\ [][NextProbe]_vars

-----------------------------------------------------------------------------
(* Views of an explore in the heap.                                        *)

\* The address of the table stored under key in the explore at e.
TableAt(h, e, key) ==
    (CHOOSE x \in {h[h[e].tables].entries[i] :
                        i \in 1..Len(h[h[e].tables].entries)} :
        x.key = key).val

TableKeys(h, e) ==
    [i \in 1..Len(h[h[e].tables].entries) |-> h[h[e].tables].entries[i].key]

EntrySet(o) == {o.entries[i] : i \in 1..Len(o.entries)}

\* The explore at e as one value: every address replaced by the object it
\* names.
DeepValue(h, e) ==
    [explore |-> [h[e] EXCEPT !.tables = NoAddress],
     kind |-> h[h[e].tables].kind,
     tables |->
        [i \in 1..Len(h[h[e].tables].entries) |->
            LET x == h[h[e].tables].entries[i]
            IN  [key |-> x.key,
                 table |-> [h[x.val] EXCEPT !.dimensions = NoAddress,
                                            !.metrics = NoAddress],
                 dimensions |-> h[h[x.val].dimensions],
                 metrics |-> h[h[x.val].metrics]]]]

\* The user has every attribute the dimension requires, with the value
\* required.
Entitled(userAttributes, dimension) ==
    \A pair \in {dimension.requiredAttributes.entries[i] :
                    i \in 1..Len(dimension.requiredAttributes.entries)} :
        /\ pair[1] \in DOMAIN userAttributes
        /\ userAttributes[pair[1]] = pair[2]

\* A call has returned.
Returned(u) == call[u].pc = "done"

\* filterDimensionsFromExplore run to completion by owner on heap h.
RECURSIVE ReduceTables(_, _, _, _, _, _)
ReduceTables(h, at, entries, i, userAttributes, owner) ==
    IF i > Len(entries) THEN [heap |-> h, at |-> at]
    ELSE LET r == tablesReducer(h, at, entries[i], userAttributes, owner)
         IN  ReduceTables(r.heap, r.at, entries, i + 1, userAttributes, owner)

filterDimensionsFromExplore(h, explore, userAttributes, owner) ==
    LET r == ReduceTables(h, EmptyObject, ObjectEntries(h[h[explore].tables]),
                          1, userAttributes, owner)
    IN  exploreWithTables(r.heap, explore, r.at, owner)

-----------------------------------------------------------------------------
(* The access filter: claims.                                              *)

\* C1: when a call has returned, a dimension of a table of its input that
\* declares requiredAttributes is in the same table of the result if and
\* only if the user's attributes hold every required (attribute, value)
\* pair; a required attribute the user does not have excludes it.
C1_RequiredAttributesDecide ==
    \A u \in Users :
        Returned(u) =>
            \A key \in {TableKeys(heap, call[u].input)[i] :
                            i \in 1..Len(TableKeys(heap, call[u].input))} :
                LET inDims == heap[heap[TableAt(heap, call[u].input, key)].dimensions]
                    outDims == heap[heap[TableAt(heap, call[u].result, key)].dimensions]
                IN  \A d \in EntrySet(inDims) :
                        d.val.requiredAttributes.defined =>
                            (d \in EntrySet(outDims)
                                <=> Entitled(call[u].userAttributes, d.val))

\* C1 witness: a returned call kept one dimension with required attributes
\* and dropped another because the user lacks an attribute it requires.
C1_Witness ==
    \E u \in Users :
        /\ Returned(u)
        /\ call[u].input = SharedExplore
        /\ LET inDims == heap[heap[TableAt(heap, SharedExplore, "orders")].dimensions]
               outDims == heap[heap[TableAt(heap, call[u].result, "orders")].dimensions]
           IN  /\ \E d \in EntrySet(inDims) :
                    /\ Len(d.val.requiredAttributes.entries) > 0
                    /\ d \in EntrySet(outDims)
               /\ \E d \in EntrySet(inDims) :
                    /\ d \notin EntrySet(outDims)
                    /\ \E i \in 1..Len(d.val.requiredAttributes.entries) :
                         d.val.requiredAttributes.entries[i][1]
                            \notin DOMAIN call[u].userAttributes

\* C2: no step of a call changes or removes an object that exists, so the
\* input explore, its table map and every table's dimensions and metrics
\* stay what they were; and the explore a call returns is a new object.
C2_InputNeverMutated ==
    [][ /\ \A a \in DOMAIN heap : a \in DOMAIN heap' /\ heap'[a] = heap[a]
        /\ \A u \in Users :
              (~Returned(u) /\ call'[u].pc = "done") =>
                    /\ call'[u].result \notin DOMAIN heap
                    /\ heap'[call'[u].result].tables \notin DOMAIN heap ]_vars

\* C2 witness: a call on the shared explore has returned an explore with
\* fewer dimensions, and the shared explore is as the compiler left it.
C2_Witness ==
    \E u \in Users :
        /\ Returned(u)
        /\ call[u].input = SharedExplore
        /\ DeepValue(heap, call[u].result).tables[1].dimensions
                # DeepValue(heap, SharedExplore).tables[1].dimensions
        /\ DeepValue(heap, SharedExplore) = DeepValue(compiledHeap, SharedExplore)

\* C3: when a call has returned, the result has the tables of the input
\* under the same keys, each with the metrics of the input's table, and
\* the base table and the joins of the input.
C3_MetricsNeverFiltered ==
    \A u \in Users :
        Returned(u) =>
            LET in == DeepValue(heap, call[u].input)
                out == DeepValue(heap, call[u].result)
            IN  /\ out.explore = in.explore
                /\ Len(out.tables) = Len(in.tables)
                /\ \A i \in 1..Len(in.tables) :
                      /\ out.tables[i].key = in.tables[i].key
                      /\ out.tables[i].table = in.tables[i].table
                      /\ out.tables[i].metrics = in.tables[i].metrics

\* C3 witness: a call has returned to a user who lacks the attribute the
\* revenue metric requires, and revenue is in the result.
C3_Witness ==
    \E u \in Users :
        /\ Returned(u)
        /\ "region" \notin DOMAIN call[u].userAttributes
        /\ \E m \in EntrySet(DeepValue(heap, call[u].result).tables[1].metrics) :
              /\ m.key = "revenue"
              /\ m.val.requiredAttributes.defined
              /\ ~Entitled(call[u].userAttributes, m.val)

\* C4: filtering the result of a call again with the same attributes gives
\* an explore equal to that result.
C4_Idempotent ==
    \A u \in Users :
        (Returned(u) /\ call[u].first # NoAddress) =>
            DeepValue(heap, call[u].result) = DeepValue(heap, call[u].first)

\* C4 witness: the second filtering has returned, the first one had dropped
\* a dimension of the shared explore and kept two.
C4_Witness ==
    \E u \in Users :
        /\ Returned(u)
        /\ call[u].first # NoAddress
        /\ Len(DeepValue(heap, call[u].first).tables[1].dimensions.entries) = 2
        /\ Len(DeepValue(heap, call[u].first).tables[2].dimensions.entries)
                < Len(DeepValue(heap, SharedExplore).tables[2].dimensions.entries)

\* C5: whatever the other users' calls did in between, the explore a call
\* on the shared explore returns is the one the call returns when it runs
\* alone on the explore as compiled, and holds no dimension the caller's
\* own attributes do not entitle.
C5_ResultAsIfAlone ==
    \A u \in Users :
        (Returned(u) /\ call[u].input = SharedExplore) =>
            /\ LET alone == filterDimensionsFromExplore(
                                compiledHeap, SharedExplore,
                                call[u].userAttributes, u)
               IN  DeepValue(heap, call[u].result)
                        = DeepValue(alone.heap, alone.result)
            /\ \A i \in 1..Len(DeepValue(heap, call[u].result).tables) :
                  \A d \in EntrySet(DeepValue(heap, call[u].result).tables[i].dimensions) :
                        Entitled(call[u].userAttributes, d.val)

\* C5 witness: two users with different attributes have both been returned
\* an explore, and one holds a dimension the other is not entitled to.
C5_Witness ==
    /\ \A u \in Users : Returned(u) /\ call[u].input = SharedExplore
    /\ \E u, v \in Users :
          /\ call[u].userAttributes # call[v].userAttributes
          /\ \E d \in EntrySet(DeepValue(heap, call[u].result).tables[1].dimensions) :
                /\ ~Entitled(call[v].userAttributes, d.val)
                /\ d \notin EntrySet(DeepValue(heap, call[v].result).tables[1].dimensions)

\* C6: exploreHasFilteredAttribute is true exactly when some dimension of
\* some table of the explore has requiredAttributes defined; the metrics do
\* not count.
C6_HasFilteredAttribute ==
    probe.asked =>
        (probe.value <=>
            \E i \in 1..Len(DeepValue(heap, probe.explore).tables) :
                \E d \in EntrySet(DeepValue(heap, probe.explore).tables[i].dimensions) :
                    d.val.requiredAttributes.defined)

\* C6 witness: the answer was false for an explore in which a metric, and
\* no dimension, has requiredAttributes.
C6_Witness ==
    /\ probe.asked
    /\ ~probe.value
    /\ \E i \in 1..Len(DeepValue(heap, probe.explore).tables) :
          \E m \in EntrySet(DeepValue(heap, probe.explore).tables[i].metrics) :
                m.val.requiredAttributes.defined

-----------------------------------------------------------------------------
(* CsvService.couldBeTruncated                                             *)

\* Faulty variant: no row of slack is taken off the limit.
couldBeTruncatedNoSlack(rows, config) ==
    IF rows.n = 0 THEN FALSE
    ELSE LET numberRows == rows.n
             numberColumns == Len(rows.keys)
             cellsLimit == OrElse(config.csvCellsLimit, DefaultCellsLimit)
         IN  numberRows * numberColumns >= cellsLimit

\* Faulty variant: the comparison is strict.
couldBeTruncatedStrict(rows, config) ==
    IF rows.n = 0 THEN FALSE
    ELSE LET numberRows == rows.n
             numberColumns == Len(rows.keys)
             cellsLimit == OrElse(config.csvCellsLimit, DefaultCellsLimit)
         IN  numberRows * numberColumns > cellsLimit - numberColumns

couldBeTruncated(rows, config) ==
    IF rows.n = 0 THEN FALSE
    ELSE LET numberRows == rows.n
             numberColumns == Len(rows.keys)
             cellsLimit == OrElse(config.csvCellsLimit, DefaultCellsLimit)
         IN  numberRows * numberColumns >= cellsLimit - numberColumns

InitTruncation ==
    /\ FilterIdle
    /\ \E limit \in CellsLimitChoices :
          lightdashConfig = [csvCellsLimit |-> limit, s3Enabled |-> FALSE]
    /\ results \in SmallResults \cup LargeResults
    /\ truncation = [called |-> FALSE, value |-> FALSE]
    /\ ExportIdle
    /\ CellsIdle
    /\ HookIdle

CallCouldBeTruncated ==
    /\ ~truncation.called
    /\ truncation' = [called |-> TRUE,
                      value |-> couldBeTruncated(results, lightdashConfig)]
    /\ UNCHANGED <<lightdashConfig, results, fileIdCall, cellCall, hook>>
    /\ UNCHANGED exportVars
    /\ UNCHANGED filterVars

NextTruncation == CallCouldBeTruncated

SpecTruncation == InitTruncation /\ [][NextTruncation]_vars

\* The limit in force: the configured csvCellsLimit, 100000 without one.
CellsLimitInForce ==
    IF lightdashConfig.csvCellsLimit.defined
    THEN lightdashConfig.csvCellsLimit.value
    ELSE 100000

C8_AsStated ==
    (/\ truncation.called
     /\ CellsLimitInForce = 100000
     /\ Len(results.keys) = 10) =>
        /\ results.n = 9999 => ~truncation.value
        /\ results.n = 10000 => truncation.value

\* C8 amended: under a limit of 100000 and ten columns, 9998 rows are not
\* truncated, 9999 rows are (9999 * 10 = 99990 >= 100000 - 10) and 10000
\* rows are.
C8_Boundary ==
    (/\ truncation.called
     /\ CellsLimitInForce = 100000
     /\ Len(results.keys) = 10) =>
        /\ results.n = 9998 => ~truncation.value
        /\ results.n = 9999 => truncation.value
        /\ results.n = 10000 => truncation.value

\* C8 witness: 9999 rows of ten columns were evaluated under the limit of
\* 100000 and found truncated.
C8_Witness ==
    /\ truncation.called
    /\ CellsLimitInForce = 100000
    /\ Len(results.keys) = 10
    /\ results.n = 9999
    /\ truncation.value

-----------------------------------------------------------------------------
(* CsvService.generateFileId                                               *)

\* String.prototype.toLowerCase on the characters the model uses.
ToLowerCase(c) ==
    CASE c = "M" -> "m"
      [] c = "C" -> "c"
      [] c = "O" -> "o"
      [] OTHER -> c

\* The characters [a-z0-9] among those the model uses.
AlphaNumeric ==
    {"a", "c", "d", "e", "h", "m", "o", "r", "s", "t", "y", "0", "2", "4"}

\* .replace(/_{2,}/g, '_'): an underscore that follows one is dropped.
RECURSIVE CollapseUnderscores(_, _)
CollapseUnderscores(s, i) ==
    IF i > Len(s) THEN <<>>
    ELSE IF s[i] = "_" /\ i > 1 /\ s[i - 1] = "_"
         THEN CollapseUnderscores(s, i + 1)
         ELSE <<s[i]>> \o CollapseUnderscores(s, i + 1)

SanitizeFileName(fileName) ==
    LET lower == [i \in 1..Len(fileName) |-> ToLowerCase(fileName[i])]
        replaced == [i \in 1..Len(lower) |->
                        IF lower[i] \in AlphaNumeric THEN lower[i] ELSE "_"]
    IN  CollapseUnderscores(replaced, 1)

\* A moment: the clock is in milliseconds from 2024-01-02 03:04:05.000
\* (times of January 2024).
Moment(t) ==
    LET elapsed == 3 * 3600 + 4 * 60 + 5 + t \div 1000
        seconds == elapsed % 86400
    IN  [year |-> 2024, month |-> 1, date |-> 2 + elapsed \div 86400,
         hour |-> seconds \div 3600,
         minute |-> (seconds % 3600) \div 60,
         second |-> seconds % 60,
         millisecond |-> t % 1000]

Digits == <<"0", "1", "2", "3", "4", "5", "6", "7", "8", "9">>

Power10(w) == IF w = 0 THEN 1 ELSE IF w = 1 THEN 10 ELSE IF w = 2 THEN 100 ELSE 1000

\* The decimal digits of n, filled with zeros to the width w.
ZeroFill(n, w) ==
    [i \in 1..w |-> Digits[((n \div Power10(w - i)) % 10) + 1]]

\* time.format('YYYY-MM-DD-HH-mm-ss-SSSS'): SSSS is the fraction of the
\* second in four digits, and a moment has milliseconds, so it is ten
\* times the millisecond.
FormatTimestamp(time) ==
    ZeroFill(time.year, 4) \o <<"-">> \o ZeroFill(time.month, 2) \o <<"-">>
        \o ZeroFill(time.date, 2) \o <<"-">> \o ZeroFill(time.hour, 2)
        \o <<"-">> \o ZeroFill(time.minute, 2) \o <<"-">>
        \o ZeroFill(time.second, 2) \o <<"-">>
        \o ZeroFill(time.millisecond * 10, 4)

CsvPrefix == <<"c", "s", "v", "-">>

IncompleteResults ==
    <<"i", "n", "c", "o", "m", "p", "l", "e", "t", "e", "_",
      "r", "e", "s", "u", "l", "t", "s", "-">>

CsvExtension == <<".", "c", "s", "v">>

\* Faulty variant: the underscores at the end of the name are trimmed.
generateFileIdTrimmed(fileName, truncated, time) ==
    LET name == SanitizeFileName(fileName)
        trimmed == IF Len(name) > 0 /\ name[Len(name)] = "_"
                   THEN SubSeq(name, 1, Len(name) - 1) ELSE name
    IN  CsvPrefix \o (IF truncated THEN IncompleteResults ELSE <<>>)
            \o trimmed \o <<"-">> \o FormatTimestamp(time) \o CsvExtension

\* Faulty variant: every file id is that of a complete result.
generateFileIdUnmarked(fileName, truncated, time) ==
    CsvPrefix \o SanitizeFileName(fileName) \o <<"-">>
        \o FormatTimestamp(time) \o CsvExtension

\* The file id csv-[incomplete_results-]<name>-<timestamp>.csv, as the
\* sequence of its characters.
generateFileId(fileName, truncated, time) ==
    CsvPrefix \o (IF truncated THEN IncompleteResults ELSE <<>>)
        \o SanitizeFileName(fileName) \o <<"-">> \o FormatTimestamp(time)
        \o CsvExtension

\* The characters of file names: an upper-case and a lower-case letter, a
\* digit, and three that are not alphanumeric.
NameAlphabet == {"M", "y", "0", "_", " ", "!"}

MaxNameLen == 3

MyChart ==
    <<"M", "y", " ", "C", "h", "a", "r", "t", "!", "!">>

RECURSIVE NamesOfLength(_)
NamesOfLength(n) ==
    IF n = 0 THEN {<<>>}
    ELSE {Append(name, c) : name \in NamesOfLength(n - 1), c \in NameAlphabet}

FileNames ==
    {MyChart} \cup UNION {NamesOfLength(n) : n \in 0..MaxNameLen}

\* Times of day from 03:04:05.000 on, in milliseconds after it.
TimeChoices == {0, 6, 123, 999, 56789}

InitFileId ==
    /\ FilterIdle
    /\ TruncationIdle
    /\ lightdashConfig = [csvCellsLimit |-> NotSet, s3Enabled |-> FALSE]
    /\ NoExport
    /\ CellsIdle
    /\ HookIdle
    /\ \E fileName \in FileNames :
       \E truncated \in BOOLEAN :
       \E time \in TimeChoices :
          fileIdCall = [IdleFileIdCall EXCEPT !.fileName = fileName,
                                              !.truncated = truncated,
                                              !.time = time]

CallGenerateFileId ==
    /\ ~fileIdCall.called
    /\ fileIdCall' = [fileIdCall EXCEPT
                        !.called = TRUE,
                        !.value = generateFileId(fileIdCall.fileName,
                                                 fileIdCall.truncated,
                                                 Moment(fileIdCall.time))]
    /\ UNCHANGED <<heap, compiledHeap, call, probe, lightdashConfig, results,
                   truncation, cellCall, hook>>
    /\ UNCHANGED exportVars

NextFileId ==
    \/ CallGenerateFileId

SpecFileId == InitFileId /\ [][NextFileId]_vars

\* The name as the naming convention words it: lower case, and one
\* underscore in the place of every maximal run of other characters.
RunsReplaced(fileName) ==
    LET Kept(i) == ToLowerCase(fileName[i]) \in AlphaNumeric
        Piece(i) == IF Kept(i) THEN <<ToLowerCase(fileName[i])>>
                    ELSE IF i = 1 \/ Kept(i - 1) THEN <<"_">>
                    ELSE <<>>
        Pieces[i \in 0..Len(fileName)] ==
            IF i = 0 THEN <<>> ELSE Pieces[i - 1] \o Piece(i)
    IN  Pieces[Len(fileName)]

\* C16: generateFileId returns csv-, then incomplete_results- if and only
\* if truncated, then the sanitized name, a hyphen, the timestamp and .csv;
\* the sanitized name is the lower-cased name with one underscore for each
\* maximal run of non-alphanumeric characters, and has no two adjacent
\* underscores.
C16_FileIdFormat ==
    fileIdCall.called =>
        LET name == RunsReplaced(fileIdCall.fileName)
            marker == IF fileIdCall.truncated THEN IncompleteResults ELSE <<>>
            value == fileIdCall.value
            nameAt == Len(CsvPrefix) + Len(marker)
        IN  /\ value = CsvPrefix \o marker \o name \o <<"-">>
                        \o FormatTimestamp(Moment(fileIdCall.time))
                        \o CsvExtension
            /\ Len(FormatTimestamp(Moment(fileIdCall.time))) = 24
            /\ (SubSeq(value, Len(CsvPrefix) + 1,
                       Len(CsvPrefix) + Len(IncompleteResults))
                    = IncompleteResults) <=> fileIdCall.truncated
            /\ \A i \in 1..Len(name) :
                  /\ name[i] \in AlphaNumeric \cup {"_"}
                  /\ i > 1 /\ name[i] = "_" => name[i - 1] # "_"
                  /\ value[nameAt + i] = name[i]

\* C16 witness: a name with an upper-case letter and a run of several
\* non-alphanumeric characters, underscore among them, gave the file id of
\* a truncated result.
C16_Witness ==
    /\ fileIdCall.called
    /\ fileIdCall.truncated
    /\ fileIdCall.fileName = <<"M", "_", "!">>
    /\ fileIdCall.time = 999
    /\ fileIdCall.value = CsvPrefix \o IncompleteResults \o <<"m", "_", "-">>
                            \o FormatTimestamp(Moment(999)) \o CsvExtension

\* C17 as stated: "My Chart!!" at 2024-01-02 03:04:05 (no millisecond, or
\* six) gives csv-my_chart-2024-01-02-03-04-05-0006.csv.
C17_AsStated ==
    (/\ fileIdCall.called
     /\ fileIdCall.fileName = MyChart
     /\ ~fileIdCall.truncated
     /\ fileIdCall.time \in {0, 6}) =>
        fileIdCall.value =
            <<"c", "s", "v", "-", "m", "y", "_", "c", "h", "a", "r",
              "t", "-", "2", "0", "2", "4", "-", "0", "1", "-", "0",
              "2", "-", "0", "3", "-", "0", "4", "-", "0", "5", "-",
              "0", "0", "0", "6", ".", "c", "s", "v">>

\* C17: "My Chart!!" at 2024-01-02 03:04:05 and 6 milliseconds gives
\* csv-my_chart_-2024-01-02-03-04-05-0060.csv, and with no millisecond
\* ...-0000.csv: the trailing run leaves one underscore before the
\* separator, and the last four digits are ten times the millisecond.
C17_Example ==
    (/\ fileIdCall.called
     /\ fileIdCall.fileName = MyChart
     /\ ~fileIdCall.truncated) =>
        /\ fileIdCall.time = 6 =>
            fileIdCall.value =
                <<"c", "s", "v", "-", "m", "y", "_", "c", "h", "a",
                  "r", "t", "_", "-", "2", "0", "2", "4", "-", "0",
                  "1", "-", "0", "2", "-", "0", "3", "-", "0", "4",
                  "-", "0", "5", "-", "0", "0", "6", "0", ".", "c",
                  "s", "v">>
        /\ fileIdCall.time = 0 =>
            fileIdCall.value =
                <<"c", "s", "v", "-", "m", "y", "_", "c", "h", "a",
                  "r", "t", "_", "-", "2", "0", "2", "4", "-", "0",
                  "1", "-", "0", "2", "-", "0", "3", "-", "0", "4",
                  "-", "0", "5", "-", "0", "0", "0", "0", ".", "c",
                  "s", "v">>
        /\ fileIdCall.value[Len(fileIdCall.value) - Len(CsvExtension)] = "0"

\* C17 witness: generateFileId was called with "My Chart!!", not
\* truncated, at 6 milliseconds after 03:04:05.
C17_Witness ==
    /\ fileIdCall.called
    /\ fileIdCall.fileName = MyChart
    /\ ~fileIdCall.truncated
    /\ fileIdCall.time = 6
    /\ Len(fileIdCall.value) = 42

-----------------------------------------------------------------------------
(* CsvService.writeRowsToFile                                              *)

\* Array.prototype.indexOf: the first index from 0, -1 when absent.
IndexOf(seq, x) ==
    IF \E i \in 1..Len(seq) : seq[i] = x
    THEN (CHOOSE i \in 1..Len(seq) :
            seq[i] = x /\ \A j \in 1..(i - 1) : seq[j] # x) - 1
    ELSE -1

Includes(seq, x) == \E i \in 1..Len(seq) : seq[i] = x

\* Array.prototype.filter
RECURSIVE FilterSelected(_, _, _)
FilterSelected(keys, selected, i) ==
    IF i > Len(keys) THEN <<>>
    ELSE IF Includes(selected, keys[i])
         THEN <<keys[i]>> \o FilterSelected(keys, selected, i + 1)
         ELSE FilterSelected(keys, selected, i + 1)

\* x put into a sorted sequence after every element that does not compare
\* greater: (a, b) => columnOrder.indexOf(a) - columnOrder.indexOf(b).
InsertByOrder(sorted, x, columnOrder) ==
    LET after == {i \in 1..Len(sorted) :
                    IndexOf(columnOrder, sorted[i]) - IndexOf(columnOrder, x) > 0}
        at == IF after = {} THEN Len(sorted) + 1
              ELSE CHOOSE i \in after : \A j \in after : i <= j
    IN  SubSeq(sorted, 1, at - 1) \o <<x>> \o SubSeq(sorted, at, Len(sorted))

\* Faulty variant: the columns stay in the order of the keys of the row.
SortByOrderSkipped(ids, n, columnOrder) == ids

\* Array.prototype.sort with that comparator (a stable sort).
RECURSIVE SortByOrder(_, _, _)
SortByOrder(ids, n, columnOrder) ==
    IF n = 0 THEN <<>>
    ELSE InsertByOrder(SortByOrder(ids, n - 1, columnOrder), ids[n], columnOrder)

\* The items getItemMap knows: id -> the labels of the item.
ItemMap ==
    [id \in {"orders_status", "orders_count"} |->
        [tableLabel |-> "Orders",
         label |-> IF id = "orders_status" THEN "Status" ELSE "Count",
         fieldType |-> IF id = "orders_status" THEN "dimension" ELSE "metric",
         type |-> IF id = "orders_status" THEN "string" ELSE "number"]]

\* getItemLabel and getItemLabelWithoutTableName
getItemLabel(item) == <<item.tableLabel, item.label>>

getItemLabelWithoutTableName(item) == <<item.label>>

HeaderLabel(id, itemMap, showTableNames, customLabels) ==
    IF id \in DOMAIN customLabels.labels /\ customLabels.labels[id] # <<>>
    THEN customLabels.labels[id]
    ELSE IF id \in DOMAIN itemMap
         THEN IF showTableNames THEN getItemLabel(itemMap[id])
              ELSE getItemLabelWithoutTableName(itemMap[id])
         ELSE <<id>>

\* metricQuery.tableCalculations.map((tc) => tc.name)
TableCalculationNames(tableCalculations) ==
    [i \in 1..Len(tableCalculations) |-> tableCalculations[i].name]

\* Faulty variant: every key of the first row becomes a column.
SelectedFieldIdsAll(rows, metricQuery) == rows.keys

\* The keys of the first row that are selected in the metric query.
SelectedFieldIds(rows, metricQuery) ==
    FilterSelected(rows.keys,
                   metricQuery.metrics \o metricQuery.dimensions
                       \o TableCalculationNames(metricQuery.tableCalculations),
                   1)

\* Faulty variant: a truncated result loses its last row.
writeRowsToFileCut(rows, metricQuery, itemMap, showTableNames, fileName, truncated, customLabels, columnOrder, time) ==
    LET fileId == generateFileId(fileName, truncated, time)
        sortedFieldIds ==
            LET kept == SelectedFieldIds(rows, metricQuery)
            IN  SortByOrder(kept, Len(kept), columnOrder)
    IN  IF rows.n = 0
        THEN [NoPipeline EXCEPT !.threw = TRUE, !.fileId = fileId]
        ELSE [threw |-> FALSE, fileId |-> fileId,
              sortedFieldIds |-> sortedFieldIds,
              csvHeader |-> [i \in 1..Len(sortedFieldIds) |->
                                HeaderLabel(sortedFieldIds[i], itemMap,
                                            showTableNames, customLabels)],
              source |-> IF truncated THEN rows.n - 1 ELSE rows.n,
              workers |-> <<>>]

\* The synchronous part of writeRowsToFile: the file id, the write stream
\* on /tmp/<fileId>, the columns, the header and the read stream over the
\* rows.  Object.keys(rows[0]) throws a TypeError for no rows, after the
\* write stream was created.  The streams are created in the calling
\* thread; no worker is.
writeRowsToFile(rows, metricQuery, itemMap, showTableNames, fileName, truncated, customLabels, columnOrder, time) ==
    LET fileId == generateFileId(fileName, truncated, time)
        sortedFieldIds ==
            LET kept == SelectedFieldIds(rows, metricQuery)
            IN  SortByOrder(kept, Len(kept), columnOrder)
    IN  IF rows.n = 0
        THEN [NoPipeline EXCEPT !.threw = TRUE, !.fileId = fileId]
        ELSE [threw |-> FALSE, fileId |-> fileId,
              sortedFieldIds |-> sortedFieldIds,
              csvHeader |-> [i \in 1..Len(sortedFieldIds) |->
                                HeaderLabel(sortedFieldIds[i], itemMap,
                                            showTableNames, customLabels)],
              source |-> rows.n,
              workers |-> <<>>]

\* row[id] of the r-th row of a result.
Datum(r, id) == <<"row", r, id>>

\* null and undefined, as values of a cell.
NullValue == <<"null">>

UndefinedValue == <<"undefined">>

\* itemMap[id] of an id the map does not have.
UndefinedItem == [undefined |-> TRUE]

\* The r-th row of a result: an object with the keys of the result.
Row(rows, r) == [id \in {rows.keys[k] : k \in 1..Len(rows.keys)} |-> Datum(r, id)]

\* isField of @lightdash/common: a Field has a fieldType, a
\* TableCalculation has none.
isField(item) == "fieldType" \in DOMAIN item

\* formatItemValue of @lightdash/common: the value under the format the
\* item declares, the default format without one.
formatItemValue(item, data) ==
    <<"formatted", data,
      IF "format" \in DOMAIN item THEN item.format ELSE "default">>

\* moment(data): the moment of a Date, and an invalid moment otherwise.
MomentOf(data) ==
    IF data[1] = "instant"
    THEN [valid |-> TRUE, time |-> Moment(data[2])]
    ELSE [valid |-> FALSE, time |-> Moment(0)]

InvalidDate == <<"I", "n", "v", "a", "l", "i", "d", " ", "d", "a", "t", "e">>

\* moment(data).format('YYYY-MM-DD')
FormatDate(m) ==
    IF ~m.valid THEN InvalidDate
    ELSE ZeroFill(m.time.year, 4) \o <<"-">> \o ZeroFill(m.time.month, 2)
            \o <<"-">> \o ZeroFill(m.time.date, 2)

\* moment(data).format('YYYY-MM-DD HH:mm:ss')
FormatDateTime(m) ==
    IF ~m.valid THEN InvalidDate
    ELSE FormatDate(m) \o <<" ">> \o ZeroFill(m.time.hour, 2) \o <<":">>
            \o ZeroFill(m.time.minute, 2) \o <<":">>
            \o ZeroFill(m.time.second, 2)

\* Faulty variant: raw mode is looked at before the type of the field.
convertRowToCsvRawFirst(row, itemMap, onlyRaw, sortedFieldIds) ==
    [i \in 1..Len(sortedFieldIds) |->
        LET id == sortedFieldIds[i]
            data == IF id \in DOMAIN row THEN row[id] ELSE UndefinedValue
            item == IF id \in DOMAIN itemMap THEN itemMap[id]
                    ELSE UndefinedItem
            itemIsField == isField(item)
        IN  IF data = NullValue \/ data = UndefinedValue THEN data
            ELSE IF onlyRaw THEN data
            ELSE IF itemIsField /\ item.type = "timestamp"
            THEN <<"text", FormatDateTime(MomentOf(data))>>
            ELSE IF itemIsField /\ item.type = "date"
            THEN <<"text", FormatDate(MomentOf(data))>>
            ELSE formatItemValue(item, data)]

\* Faulty variant: the type of the field is looked at before null and
\* undefined.
convertRowToCsvDatesFirst(row, itemMap, onlyRaw, sortedFieldIds) ==
    [i \in 1..Len(sortedFieldIds) |->
        LET id == sortedFieldIds[i]
            data == IF id \in DOMAIN row THEN row[id] ELSE UndefinedValue
            item == IF id \in DOMAIN itemMap THEN itemMap[id]
                    ELSE UndefinedItem
            itemIsField == isField(item)
        IN  IF itemIsField /\ item.type = "timestamp"
            THEN <<"text", FormatDateTime(MomentOf(data))>>
            ELSE IF itemIsField /\ item.type = "date"
            THEN <<"text", FormatDate(MomentOf(data))>>
            ELSE IF data = NullValue \/ data = UndefinedValue THEN data
            ELSE IF onlyRaw THEN data
            ELSE formatItemValue(item, data)]

\* CsvService.convertRowToCsv: one cell per sorted field id.
convertRowToCsv(row, itemMap, onlyRaw, sortedFieldIds) ==
    [i \in 1..Len(sortedFieldIds) |->
        LET id == sortedFieldIds[i]
            data == IF id \in DOMAIN row THEN row[id] ELSE UndefinedValue
            item == IF id \in DOMAIN itemMap THEN itemMap[id]
                    ELSE UndefinedItem
            itemIsField == isField(item)
        IN  IF data = NullValue \/ data = UndefinedValue THEN data
            ELSE IF itemIsField /\ item.type = "timestamp"
            THEN <<"text", FormatDateTime(MomentOf(data))>>
            ELSE IF itemIsField /\ item.type = "date"
            THEN <<"text", FormatDate(MomentOf(data))>>
            ELSE IF onlyRaw THEN data
            ELSE formatItemValue(item, data)]

\* Promise settlement: only a pending promise settles.
Reject(promise, error) ==
    IF promise.state = "pending"
    THEN [state |-> "rejected", value |-> error]
    ELSE promise

Resolve(promise, value) ==
    IF promise.state = "pending"
    THEN [state |-> "fulfilled", value |-> value]
    ELSE promise

NoError == "none"

\* Faulty variant: the error of the pipeline is dropped, reject is not
\* called.
pipelineCallbackNoReject(promise, err, fileId) ==
    IF err # NoError THEN promise ELSE Resolve(promise, fileId)

\* Faulty variant: resolve(fileId) runs before the error is looked at.
pipelineCallbackResolveFirst(promise, err, fileId) ==
    LET resolved == Resolve(promise, fileId)
    IN  IF err # NoError THEN Reject(resolved, err) ELSE resolved

\* The callback of pipeline(): if (err) reject(err); resolve(fileId).
pipelineCallback(promise, err, fileId) ==
    Resolve(IF err # NoError THEN Reject(promise, err) ELSE promise, fileId)

\* A hole of a file: a position past the end was written.
Hole == <<"hole">>

\* A write stream writes at its own position: the header with the first
\* record, the k-th record at the k-th place, over what is there.
WriteRecord(file, k, header, columns, record) ==
    [header |-> IF k = 1 THEN header ELSE file.header,
     columns |-> IF k = 1 THEN columns ELSE file.columns,
     records |->
        [i \in 1..(IF k > Len(file.records) THEN k ELSE Len(file.records)) |->
            IF i = k THEN record
            ELSE IF i <= Len(file.records) THEN file.records[i]
            ELSE Hole]]

\* fs.createWriteStream: the file exists and is empty.
NewFile == [header |-> <<>>, columns |-> <<>>, records |-> <<>>]

RemoveFile(files, fileId) == [f \in DOMAIN files \ {fileId} |-> files[f]]

-----------------------------------------------------------------------------
(* CsvService.downloadCsv                                                  *)

ExploreId == <<"o", "r", "d", "e", "r", "s">>

MetricQueryChoices ==
    { [dimensions |-> <<"orders_status">>, metrics |-> <<"orders_count">>,
       tableCalculations |-> <<>>],
      [dimensions |-> <<"orders_status">>, metrics |-> <<>>,
       tableCalculations |-> <<[name |-> "orders_total"]>>],
      [dimensions |-> <<"orders_status">>,
       metrics |-> <<"orders_count", "customers_country">>,
       tableCalculations |-> <<[name |-> "orders_total"]>>] }

ColumnOrderChoices ==
    { <<>>,
      <<"orders_total", "orders_count", "orders_status">>,
      <<"orders_count">> }

CustomLabelsChoices ==
    { NoLabels, Labels([id \in {"orders_status"} |-> <<"State">>]) }

FlowCellsLimitChoices == {NotSet, Set(MaxCellsLimit)}

\* A query run against the warehouse: the export that ran it, and whether
\* the warehouse threw.
Query(by, failed) == [by |-> by, failed |-> failed]

\* Faulty variant: the error event is tracked and the error is swallowed.
DownloadCatchSwallowed(error) ==
    /\ events' = Append(events, "download_results.error")
    /\ download' = [download EXCEPT !.pc = "failed"]

\* The catch block: the error event is tracked and the error rethrown.
DownloadCatch(error) ==
    /\ events' = Append(events, "download_results.error")
    /\ download' = [download EXCEPT !.pc = "failed", !.error = error]

\* The payloads of a downloadCsv job.
DownloadPayloads ==
    {[IdleDownload EXCEPT !.metricQuery = metricQuery,
                          !.columnOrder = columnOrder,
                          !.customLabels = customLabels,
                          !.showTableNames = showTableNames,
                          !.onlyRaw = onlyRaw] :
        metricQuery \in MetricQueryChoices,
        columnOrder \in ColumnOrderChoices,
        customLabels \in CustomLabelsChoices,
        showTableNames \in BOOLEAN,
        onlyRaw \in BOOLEAN}

\* Entry, with the payload of the job: the permission check, then the
\* started event.
DownloadCsv ==
    /\ download.pc = "idle"
    /\ \E canExport \in BOOLEAN :
          IF ~canExport
          THEN /\ download' = [download EXCEPT !.pc = "failed",
                                               !.error = "ForbiddenError"]
               /\ UNCHANGED events
          ELSE /\ download' = [download EXCEPT !.pc = "query"]
               /\ events' = Append(events, "download_results.started")
    /\ UNCHANGED <<sqlDownload, chart, timers, tmp, bucket, clock>>
    /\ UNCHANGED restVars
    /\ UNCHANGED <<queries, scheduler>>

\* await projectService.runMetricQuery: the query is run, and the rows
\* come back or the warehouse error is thrown.
RunMetricQuery ==
    /\ download.pc = "query"
    /\ \/ /\ download' = [download EXCEPT !.pc = "explore", !.rows = results]
          /\ queries' = Append(queries, Query("downloadCsv", FALSE))
          /\ UNCHANGED events
       \/ /\ DownloadCatch("WarehouseError")
          /\ queries' = Append(queries, Query("downloadCsv", TRUE))
    /\ UNCHANGED <<sqlDownload, chart, timers, tmp, bucket, clock>>
    /\ UNCHANGED restVars
    /\ UNCHANGED scheduler

\* await projectService.getExplore, then couldBeTruncated and the
\* synchronous part of writeRowsToFile.
StartWriteRows ==
    /\ download.pc = "explore"
    /\ \/ /\ DownloadCatch("ExploreError")
          /\ UNCHANGED tmp
       \/ LET truncated == couldBeTruncated(download.rows, lightdashConfig)
              pipeline == writeRowsToFile(
                              download.rows, download.metricQuery, ItemMap,
                              download.showTableNames, ExploreId, truncated,
                              download.customLabels, download.columnOrder,
                              Moment(clock))
          IN  /\ tmp' = (pipeline.fileId :> NewFile) @@ tmp
              /\ IF pipeline.threw
                 THEN /\ events' = Append(events, "download_results.error")
                      /\ download' = [download EXCEPT
                                        !.pc = "failed",
                                        !.truncated = truncated,
                                        !.calledAt = clock,
                                        !.pipeline = pipeline,
                                        !.error = "TypeError"]
                 ELSE /\ download' = [download EXCEPT
                                        !.pc = "streaming",
                                        !.truncated = truncated,
                                        !.calledAt = clock,
                                        !.pipeline = pipeline]
                      /\ UNCHANGED events
    /\ UNCHANGED <<sqlDownload, chart, timers, bucket, clock>>
    /\ UNCHANGED restVars
    /\ UNCHANGED <<queries, scheduler>>

\* One row goes through the row transformer (convertRowToCsv, in the
\* calling thread) and the stringifier into the write stream; the header
\* goes before the first record.
PipelineRow ==
    /\ download.pc = "streaming"
    /\ download.streamError = NoError
    /\ download.transformed < download.pipeline.source
    /\ tmp' = [tmp EXCEPT ![download.pipeline.fileId] =
                WriteRecord(@, download.transformed + 1,
                            download.pipeline.csvHeader,
                            download.pipeline.sortedFieldIds,
                            convertRowToCsv(Row(download.rows, download.transformed + 1), ItemMap,
                                            download.onlyRaw,
                                            download.pipeline.sortedFieldIds))]
    /\ download' = [download EXCEPT !.transformed = @ + 1]
    /\ UNCHANGED <<sqlDownload, chart, timers, bucket, events, clock>>
    /\ UNCHANGED restVars
    /\ UNCHANGED <<queries, scheduler>>

\* The pipeline callback without an error: the promise is fulfilled with
\* the file id.
PipelineFinish ==
    /\ download.pc = "streaming"
    /\ download.streamError = NoError
    /\ download.transformed = download.pipeline.source
    /\ download' = [download EXCEPT
                      !.pc = "written",
                      !.writePromise = pipelineCallback(@, NoError,
                                            download.pipeline.fileId)]
    /\ UNCHANGED <<sqlDownload, chart, timers, tmp, bucket, events, clock>>
    /\ UNCHANGED restVars
    /\ UNCHANGED <<queries, scheduler>>

\* A stream of the chain fails: pipeline() destroys the streams and calls
\* the callback with the error; downloadCsv goes on as the promise
\* settled, and waits on as long as it is pending.
PipelineError ==
    /\ download.pc = "streaming"
    /\ download.streamError = NoError
    /\ LET settled == pipelineCallback(download.writePromise, "StreamError",
                                       download.pipeline.fileId)
       IN  IF settled.state = "rejected"
           THEN /\ events' = Append(events, "download_results.error")
                /\ download' = [download EXCEPT !.pc = "failed",
                                                !.writePromise = settled,
                                                !.streamError = "StreamError",
                                                !.error = settled.value]
           ELSE /\ download' = [download EXCEPT
                                  !.pc = IF settled.state = "fulfilled"
                                         THEN "written" ELSE "streaming",
                                  !.writePromise = settled,
                                  !.streamError = "StreamError"]
                /\ UNCHANGED events
    /\ UNCHANGED <<sqlDownload, chart, timers, tmp, bucket, clock>>
    /\ UNCHANGED restVars
    /\ UNCHANGED <<queries, scheduler>>

\* With object storage: the file is read back and uploaded.  Without: the
\* local URL, the completed event and the return.
Deliver ==
    /\ download.pc = "written"
    /\ IF lightdashConfig.s3Enabled
       THEN \/ /\ bucket' = (download.pipeline.fileId
                                :> tmp[download.pipeline.fileId]) @@ bucket
               /\ download' = [download EXCEPT
                                 !.pc = "uploaded",
                                 !.fileUrl = <<"s3", download.pipeline.fileId>>]
               /\ UNCHANGED events
            \/ /\ \E error \in {"ReadError", "UploadError"} :
                     DownloadCatch(error)
               /\ UNCHANGED bucket
       ELSE /\ download' = [download EXCEPT
                              !.pc = "done",
                              !.fileUrl = <<"siteUrl", download.pipeline.fileId>>]
            /\ events' = Append(events, "download_results.completed")
            /\ UNCHANGED bucket
    /\ UNCHANGED <<sqlDownload, chart, timers, tmp, clock>>
    /\ UNCHANGED restVars
    /\ UNCHANGED <<queries, scheduler>>

\* await fsPromise.unlink, the completed event and the return.
UnlinkAndReturn ==
    /\ download.pc = "uploaded"
    /\ tmp' = RemoveFile(tmp, download.pipeline.fileId)
    /\ download' = [download EXCEPT !.pc = "done"]
    /\ events' = Append(events, "download_results.completed")
    /\ UNCHANGED <<sqlDownload, chart, timers, bucket, clock>>
    /\ UNCHANGED restVars
    /\ UNCHANGED <<queries, scheduler>>

InitDownloadCsv ==
    /\ FilterIdle
    /\ results \in SmallResults
    /\ truncation = [called |-> FALSE, value |-> FALSE]
    /\ fileIdCall = IdleFileIdCall
    /\ download \in DownloadPayloads
    /\ sqlDownload = IdleSqlDownload
    /\ chart = [t \in Tiles |-> IdleChartExport]
    /\ scheduler = IdleScheduler
    /\ EmptyStores
    /\ CellsIdle
    /\ HookIdle
    /\ \E limit \in FlowCellsLimitChoices :
       \E s3Enabled \in BOOLEAN :
          lightdashConfig = [csvCellsLimit |-> limit, s3Enabled |-> s3Enabled]

NextDownloadCsv ==
    \/ DownloadCsv
    \/ RunMetricQuery
    \/ StartWriteRows
    \/ PipelineRow
    \/ PipelineFinish
    \/ PipelineError
    \/ Deliver
    \/ UnlinkAndReturn

SpecDownloadCsv == InitDownloadCsv /\ [][NextDownloadCsv]_vars

\* The streams make progress: a row that can flow does flow, and the
\* callback of pipeline() is called once the last row has flowed (the
\* event loop runs every callback that is ready).
SpecStreaming ==
    /\ InitDownloadCsv
    /\ [][NextDownloadCsv]_vars
    /\ WF_vars(PipelineRow)
    /\ WF_vars(PipelineFinish)

\* The content of the file a download wrote: under /tmp, or in the bucket
\* once the local file was removed.
WrittenContent ==
    IF download.pipeline.fileId \in DOMAIN tmp
    THEN tmp[download.pipeline.fileId]
    ELSE bucket[download.pipeline.fileId]

\* C9: once writeRowsToFile has resolved, the file holds every row of the
\* result, truncated or not, and its columns and header are those the
\* opposite flag gives; the flag shows only in the file id (and in the
\* truncated value kept for the caller).
C9_TruncatedIsAdvisory ==
    (download.pc \in {"written", "uploaded", "done"}
        /\ download.streamError = NoError) =>
        LET other == writeRowsToFile(
                        download.rows, download.metricQuery, ItemMap,
                        download.showTableNames, ExploreId,
                        ~download.truncated, download.customLabels,
                        download.columnOrder, Moment(download.calledAt))
            marked == IF download.truncated THEN download.pipeline.fileId
                      ELSE other.fileId
            plain == IF download.truncated THEN other.fileId
                     ELSE download.pipeline.fileId
        IN  /\ WrittenContent.records =
                    [i \in 1..download.rows.n |->
                        convertRowToCsv(Row(download.rows, i), ItemMap, download.onlyRaw,
                                        other.sortedFieldIds)]
            /\ WrittenContent.columns = other.sortedFieldIds
            /\ WrittenContent.header = other.csvHeader
            /\ marked = CsvPrefix \o IncompleteResults
                            \o SubSeq(plain, Len(CsvPrefix) + 1, Len(plain))

\* C9 witness: writeRowsToFile has resolved for a result of several rows
\* that is flagged truncated, and every row is in the file.
C9_Witness ==
    /\ download.pc = "written"
    /\ download.truncated
    /\ download.rows.n >= 2
    /\ Len(tmp[download.pipeline.fileId].records) = download.rows.n
    /\ Len(tmp[download.pipeline.fileId].columns) >= 1

-----------------------------------------------------------------------------
(* convertSqlToCsv, CsvService.convertSqlQueryResultsToCsv and             *)
(* CsvService.downloadSqlCsv                                               *)

WorkerThreshold == 500

\* friendlyName of @lightdash/common
friendlyName(id) == <<"friendly", id>>

\* The results of a SQL query: small ones, and ones around the threshold.
SqlResults ==
    SmallResults
    \cup {Rows(n, SubSeq(FieldNames, 1, c)) :
            n \in (WorkerThreshold - 1)..(WorkerThreshold + MaxRows - 1),
            c \in 1..MaxColumns}

\* convertSqlToCsv: the header from the keys of the first row (a TypeError
\* without one), one line per row.  customLabels defaults to {}.
convertSqlToCsv(sqlResults, customLabels) ==
    IF sqlResults.n = 0 THEN [NoCsv EXCEPT !.threw = TRUE]
    ELSE [threw |-> FALSE,
          header |-> [i \in 1..Len(sqlResults.keys) |->
                        IF /\ customLabels.defined
                           /\ sqlResults.keys[i] \in DOMAIN customLabels.labels
                           /\ customLabels.labels[sqlResults.keys[i]] # <<>>
                        THEN customLabels.labels[sqlResults.keys[i]]
                        ELSE friendlyName(sqlResults.keys[i])],
          body |-> sqlResults.n]

NewWorker(sqlResults, customLabels) ==
    [script |-> "./dist/services/CsvService/convertSqlToCsv.js",
     workerData |-> [results |-> sqlResults, customLabels |-> customLabels]]

\* Faulty variant: results of exactly 500 rows go to a worker too.
convertSqlQueryResultsToCsvFrom500(sqlResults, customLabels) ==
    IF sqlResults.n >= WorkerThreshold
    THEN [thread |-> "worker", mainThreadCalls |-> 0,
          workers |-> <<NewWorker(sqlResults, customLabels)>>]
    ELSE [thread |-> "main", mainThreadCalls |-> 1, workers |-> <<>>]

\* Where the conversion runs: in a new worker thread for more than 500
\* rows, else by a call of convertSqlToCsv on the calling thread.
convertSqlQueryResultsToCsv(sqlResults, customLabels) ==
    IF sqlResults.n > WorkerThreshold
    THEN [thread |-> "worker", mainThreadCalls |-> 0,
          workers |-> <<NewWorker(sqlResults, customLabels)>>]
    ELSE [thread |-> "main", mainThreadCalls |-> 1, workers |-> <<>>]

JobId == "jobId"

SqlFileId == [prefix |-> "csv-", jobId |-> JobId, extension |-> ".csv"]

\* The catch block: the error event is tracked and the error rethrown.
SqlCatch(error) ==
    /\ events' = Append(events, "download_results.error")
    /\ sqlDownload' = [sqlDownload EXCEPT !.pc = "failed", !.error = error]

\* Entry: the permission check inside the try block, then the started
\* event.
DownloadSqlCsv ==
    /\ sqlDownload.pc = "idle"
    /\ \E canExport \in BOOLEAN :
       \E customLabels \in CustomLabelsChoices :
          IF ~canExport
          THEN SqlCatch("ForbiddenError")
          ELSE /\ sqlDownload' = [sqlDownload EXCEPT
                                    !.pc = "query",
                                    !.customLabels = customLabels]
               /\ events' = Append(events, "download_results.started")
    /\ UNCHANGED <<download, chart, timers, tmp, bucket, clock>>
    /\ UNCHANGED restVars
    /\ UNCHANGED <<queries, scheduler>>

\* await projectService.runSqlQuery
RunSqlQuery ==
    /\ sqlDownload.pc = "query"
    /\ \/ /\ \E sqlResults \in SqlResults :
                sqlDownload' = [sqlDownload EXCEPT !.pc = "convert",
                                                   !.results = sqlResults]
          /\ queries' = Append(queries, Query("downloadSqlCsv", FALSE))
          /\ UNCHANGED events
       \/ /\ SqlCatch("WarehouseError")
          /\ queries' = Append(queries, Query("downloadSqlCsv", TRUE))
    /\ UNCHANGED <<download, chart, timers, tmp, bucket, clock>>
    /\ UNCHANGED restVars
    /\ UNCHANGED scheduler

\* CsvService.convertSqlQueryResultsToCsv is called: a worker is started,
\* or convertSqlToCsv is called, which throws for no rows.
ConvertSqlQueryResultsToCsv ==
    /\ sqlDownload.pc = "convert"
    /\ LET conversion == convertSqlQueryResultsToCsv(sqlDownload.results,
                                                    sqlDownload.customLabels)
       IN  IF /\ conversion.thread = "main"
              /\ convertSqlToCsv(sqlDownload.results,
                                 sqlDownload.customLabels).threw
           THEN /\ events' = Append(events, "download_results.error")
                /\ sqlDownload' = [sqlDownload EXCEPT
                                     !.pc = "failed",
                                     !.conversion = conversion,
                                     !.error = "TypeError"]
           ELSE /\ sqlDownload' = [sqlDownload EXCEPT
                                     !.pc = "converting",
                                     !.conversion = conversion]
                /\ UNCHANGED events
    /\ UNCHANGED <<download, chart, timers, tmp, bucket, clock>>
    /\ UNCHANGED restVars
    /\ UNCHANGED <<queries, scheduler>>

\* The promise of the conversion settles: the csv text (from stringify on
\* the calling thread, or from the worker), or an error.
ConversionSettles ==
    /\ sqlDownload.pc = "converting"
    /\ \/ /\ sqlDownload' =
                [sqlDownload EXCEPT
                    !.pc = "store",
                    !.csvContent =
                        IF sqlDownload.conversion.thread = "main"
                        THEN convertSqlToCsv(sqlDownload.results,
                                             sqlDownload.customLabels)
                        ELSE LET data == sqlDownload.conversion.workers[1].workerData
                             IN  convertSqlToCsv(data.results, data.customLabels)]
          /\ UNCHANGED events
       \/ SqlCatch("ConversionError")
    /\ UNCHANGED <<download, chart, timers, tmp, bucket, clock>>
    /\ UNCHANGED restVars
    /\ UNCHANGED <<queries, scheduler>>

\* The csv text is uploaded, or written under /tmp; then the completed
\* event and the return.
StoreSqlCsv ==
    /\ sqlDownload.pc = "store"
    /\ \/ /\ IF lightdashConfig.s3Enabled
             THEN /\ bucket' = (SqlFileId :> sqlDownload.csvContent) @@ bucket
                  /\ sqlDownload' = [sqlDownload EXCEPT
                                       !.pc = "done",
                                       !.fileUrl = <<"s3", SqlFileId>>]
                  /\ UNCHANGED tmp
             ELSE /\ tmp' = (SqlFileId :> sqlDownload.csvContent) @@ tmp
                  /\ sqlDownload' = [sqlDownload EXCEPT
                                       !.pc = "done",
                                       !.fileUrl = <<"siteUrl", SqlFileId>>]
                  /\ UNCHANGED bucket
          /\ events' = Append(events, "download_results.completed")
       \/ /\ SqlCatch("StoreError")
          /\ UNCHANGED <<tmp, bucket>>
    /\ UNCHANGED <<download, chart, timers, clock>>
    /\ UNCHANGED restVars
    /\ UNCHANGED <<queries, scheduler>>

InitSqlCsv ==
    /\ FilterIdle
    /\ TruncationIdle
    /\ ExportIdle
    /\ CellsIdle
    /\ HookIdle
    /\ \E s3Enabled \in BOOLEAN :
          lightdashConfig = [csvCellsLimit |-> NotSet, s3Enabled |-> s3Enabled]

NextSqlCsv ==
    \/ DownloadSqlCsv
    \/ RunSqlQuery
    \/ ConvertSqlQueryResultsToCsv
    \/ ConversionSettles
    \/ StoreSqlCsv

SpecSqlCsv == InitSqlCsv /\ [][NextSqlCsv]_vars

\* C10: once convertSqlQueryResultsToCsv was called, results of at most 500
\* rows were converted by one call of convertSqlToCsv on the calling
\* thread and no worker, and results of more than 500 rows by one worker,
\* given the same results and custom labels, and no call on the calling
\* thread.
C10_RoutingThreshold ==
    sqlDownload.conversion.thread # "none" =>
        /\ sqlDownload.results.n <= 500 =>
              /\ sqlDownload.conversion.mainThreadCalls = 1
              /\ Len(sqlDownload.conversion.workers) = 0
        /\ sqlDownload.results.n > 500 =>
              /\ sqlDownload.conversion.mainThreadCalls = 0
              /\ Len(sqlDownload.conversion.workers) = 1
              /\ sqlDownload.conversion.workers[1].workerData.results
                    = sqlDownload.results
              /\ sqlDownload.conversion.workers[1].workerData.customLabels
                    = sqlDownload.customLabels
        /\ sqlDownload.conversion.mainThreadCalls
                + Len(sqlDownload.conversion.workers) = 1

\* C10 witness: results of exactly 500 rows with custom labels were
\* converted on the calling thread.
C10_Witness ==
    /\ sqlDownload.pc = "store"
    /\ sqlDownload.results.n = 500
    /\ sqlDownload.customLabels.defined
    /\ sqlDownload.conversion.thread = "main"
    /\ sqlDownload.csvContent.body = 500

-----------------------------------------------------------------------------
(* CsvService.getCsvForChart and CsvService.getCsvsForDashboard            *)

\* Faulty variant: the timer is set without a delay.
TimerDelayNone == 0 * 1000

\* setTimeout(..., 60 * 10 * 1000)
TimerDelay == 60 * 10 * 1000

\* The instants the clock is looked at, in milliseconds.
ClockInstants == {0, 1, TimerDelay}

MaxChartRows == 3

\* The charts savedChartModel.get knows.
SavedCharts ==
    { [uuid |-> "c1", name |-> MyChart,
       metricQuery |-> [dimensions |-> <<"orders_status">>,
                        metrics |-> <<"orders_count">>,
                        tableCalculations |-> <<>>],
       columnOrder |-> <<"orders_count", "orders_status">>,
       customLabels |-> NoLabels, showTableNames |-> TRUE],
      [uuid |-> "c2", name |-> ExploreId,
       metricQuery |-> [dimensions |-> <<"orders_status">>,
                        metrics |-> <<>>,
                        tableCalculations |-> <<>>],
       columnOrder |-> <<>>,
       customLabels |-> Labels([id \in {"orders_status"} |-> <<"State">>]),
       showTableNames |-> FALSE] }

ChartResults ==
    {Rows(0, <<>>)}
    \cup {Rows(n, SubSeq(FieldNames, 1, 2)) : n \in 1..MaxChartRows}

\* getCsvForChart has no catch block: the error leaves the call.
ChartThrow(t, error) ==
    chart' = [chart EXCEPT ![t].pc = "failed", ![t].error = error]

\* Entry: await savedChartModel.get, the started event for a job, await
\* projectService.getExplore.
GetCsvForChart(t) ==
    /\ chart[t].pc = "idle"
    /\ \/ /\ \E saved \in SavedCharts :
                chart' = [chart EXCEPT ![t].pc = "query", ![t].chart = saved]
          /\ events' = IF chart[t].hasJobId
                       THEN Append(events, "download_results.started")
                       ELSE events
       \/ /\ ChartThrow(t, "NotFoundError")
          /\ UNCHANGED events
    /\ UNCHANGED <<download, sqlDownload, timers, tmp, bucket, clock>>
    /\ UNCHANGED restVars
    /\ UNCHANGED <<queries, scheduler>>

\* await projectService.runMetricQuery, then for no rows the return of
\* '#no-results', else couldBeTruncated and the synchronous part of
\* writeRowsToFile.
ChartRunMetricQuery(t) ==
    /\ chart[t].pc = "query"
    /\ \/ /\ ChartThrow(t, "WarehouseError")
          /\ queries' = Append(queries, Query(t, TRUE))
          /\ UNCHANGED tmp
       \/ /\ queries' = Append(queries, Query(t, FALSE))
          /\ \E rows \in ChartResults :
            IF rows.n = 0
            THEN /\ chart' = [chart EXCEPT
                                ![t].pc = "done",
                                ![t].rows = rows,
                                ![t].attachment =
                                    [filename |-> chart[t].chart.name \o <<" (empty)">>,
                                     path |-> <<"#no-results">>,
                                     localPath |-> <<>>,
                                     truncated |-> TRUE]]
                 /\ UNCHANGED tmp
            ELSE LET truncated == couldBeTruncated(rows, lightdashConfig)
                     pipeline == writeRowsToFile(
                                    rows, chart[t].chart.metricQuery, ItemMap,
                                    chart[t].chart.showTableNames,
                                    chart[t].chart.name, truncated,
                                    chart[t].chart.customLabels,
                                    chart[t].chart.columnOrder, Moment(clock))
                 IN  /\ tmp' = (pipeline.fileId :> NewFile) @@ tmp
                     /\ chart' = [chart EXCEPT
                                    ![t].pc = "streaming",
                                    ![t].rows = rows,
                                    ![t].truncated = truncated,
                                    ![t].calledAt = clock,
                                    ![t].pipeline = pipeline]
    /\ UNCHANGED <<download, sqlDownload, timers, bucket, events, clock>>
    /\ UNCHANGED restVars
    /\ UNCHANGED scheduler

\* One row goes through the row transformer (convertRowToCsv, in the
\* calling thread) into the write stream.  A write to a file that was
\* unlinked meanwhile is not seen under /tmp.
ChartPipelineRow(t) ==
    /\ chart[t].pc = "streaming"
    /\ chart[t].transformed < chart[t].pipeline.source
    /\ tmp' = IF chart[t].pipeline.fileId \in DOMAIN tmp
              THEN [tmp EXCEPT ![chart[t].pipeline.fileId] =
                      WriteRecord(@, chart[t].transformed + 1,
                                  chart[t].pipeline.csvHeader,
                                  chart[t].pipeline.sortedFieldIds,
                                  convertRowToCsv(Row(chart[t].rows, chart[t].transformed + 1),
                                                  ItemMap, chart[t].onlyRaw,
                                                  chart[t].pipeline.sortedFieldIds))]
              ELSE tmp
    /\ chart' = [chart EXCEPT ![t].transformed = @ + 1]
    /\ UNCHANGED <<download, sqlDownload, timers, bucket, events, clock>>
    /\ UNCHANGED restVars
    /\ UNCHANGED <<queries, scheduler>>

\* The local URL and the return, when object storage is off.
LocalAttachment(t) ==
    [filename |-> chart[t].chart.name,
     path |-> <<"siteUrl", chart[t].pipeline.fileId>>,
     localPath |-> <<"/tmp/", chart[t].pipeline.fileId>>,
     truncated |-> chart[t].truncated]

\* What follows await writeRowsToFile as the promise settled: the error
\* leaves the call, or the completed event of a job and, without object
\* storage, the return.
ChartAfterWrite(t, settled, err) ==
    IF settled.state = "rejected"
    THEN /\ chart' = [chart EXCEPT ![t].pc = "failed",
                                   ![t].writePromise = settled,
                                   ![t].streamError = err,
                                   ![t].error = settled.value]
         /\ UNCHANGED events
    ELSE /\ chart' = [chart EXCEPT
                        ![t].pc = IF lightdashConfig.s3Enabled
                                  THEN "written" ELSE "done",
                        ![t].writePromise = settled,
                        ![t].streamError = err,
                        ![t].attachment = IF lightdashConfig.s3Enabled
                                          THEN @ ELSE LocalAttachment(t)]
         /\ events' = IF chart[t].hasJobId
                      THEN Append(events, "download_results.completed")
                      ELSE events

\* The pipeline callback without an error.
ChartPipelineFinish(t) ==
    /\ chart[t].pc = "streaming"
    /\ chart[t].transformed = chart[t].pipeline.source
    /\ ChartAfterWrite(t, pipelineCallback(chart[t].writePromise, NoError,
                                           chart[t].pipeline.fileId),
                       NoError)
    /\ UNCHANGED <<download, sqlDownload, timers, tmp, bucket, clock>>
    /\ UNCHANGED restVars
    /\ UNCHANGED <<queries, scheduler>>

\* A stream of the chain fails.
ChartPipelineError(t) ==
    /\ chart[t].pc = "streaming"
    /\ ChartAfterWrite(t, pipelineCallback(chart[t].writePromise,
                                           "StreamError",
                                           chart[t].pipeline.fileId),
                       "StreamError")
    /\ UNCHANGED <<download, sqlDownload, timers, tmp, bucket, clock>>
    /\ UNCHANGED restVars
    /\ UNCHANGED <<queries, scheduler>>

\* With object storage: await readFile, await uploadCsv, then setTimeout
\* for the unlink and the return.
ChartUpload(t) ==
    /\ chart[t].pc = "written"
    /\ \/ /\ chart[t].pipeline.fileId \in DOMAIN tmp
          /\ bucket' = (chart[t].pipeline.fileId
                            :> tmp[chart[t].pipeline.fileId]) @@ bucket
          /\ timers' = timers \cup
                          {[fileId |-> chart[t].pipeline.fileId,
                            due |-> clock + TimerDelay, tile |-> t]}
          /\ chart' = [chart EXCEPT
                         ![t].pc = "done",
                         ![t].uploadedAt = clock,
                         ![t].attachment =
                            [filename |-> chart[t].chart.name,
                             path |-> <<"s3", chart[t].pipeline.fileId>>,
                             localPath |-> <<"/tmp/", chart[t].pipeline.fileId>>,
                             truncated |-> chart[t].truncated]]
       \/ /\ \E error \in {"ReadError", "UploadError"} : ChartThrow(t, error)
          /\ UNCHANGED <<bucket, timers>>
    /\ UNCHANGED <<download, sqlDownload, tmp, events, clock>>
    /\ UNCHANGED restVars
    /\ UNCHANGED <<queries, scheduler>>

\* A timer is due: await fsPromise.unlink (which fails when the file is
\* gone already).
TimerFires ==
    /\ \E timer \in timers :
          /\ clock >= timer.due
          /\ timers' = timers \ {timer}
          /\ tmp' = RemoveFile(tmp, timer.fileId)
    /\ UNCHANGED <<download, sqlDownload, chart, bucket, events, clock>>
    /\ UNCHANGED restVars
    /\ UNCHANGED <<queries, scheduler>>

\* Time passes.
Tick ==
    /\ \E instant \in ClockInstants :
          /\ instant > clock
          /\ clock' = instant
    /\ UNCHANGED <<download, sqlDownload, chart, timers, tmp, bucket, events>>
    /\ UNCHANGED restVars
    /\ UNCHANGED <<queries, scheduler>>

-----------------------------------------------------------------------------
(* The three export paths                                                  *)

LargeMetricResults ==
    {Rows(WorkerThreshold + 1, SubSeq(FieldNames, 1, 1))}

\* The downloadCsv jobs of the three paths together: two payloads, and
\* results of no row, of some rows and of more than 500 rows.
ExportPayloads ==
    {payload \in DownloadPayloads :
        /\ payload.metricQuery.metrics = <<"orders_count">>
        /\ payload.columnOrder # <<>>
        /\ ~payload.customLabels.defined
        /\ payload.showTableNames
        /\ ~payload.onlyRaw}

ExportResults ==
    {Rows(0, <<>>), Rows(MaxRows, SubSeq(FieldNames, 1, MaxColumns))}
    \cup LargeMetricResults

\* What is asked for: a downloadCsv job, a downloadSqlCsv call, the
\* scheduled delivery of one chart, the charts of a dashboard, or the
\* scheduling of a downloadCsv job.
Requests ==
    {"downloadCsv", "downloadSqlCsv", "chart", "dashboard",
     "scheduleDownloadCsv"}

\* Faulty variant: the job is handed to schedulerClient before the
\* permission is checked.
ScheduleDownloadCsvUnchecked ==
    /\ scheduler.pc = "idle"
    /\ \E canExport \in BOOLEAN :
       \E csvOptions \in ExportPayloads :
          IF ~canExport
          THEN scheduler' = [scheduler EXCEPT !.pc = "failed",
                                              !.jobs = Append(@, csvOptions),
                                              !.error = "ForbiddenError"]
          ELSE scheduler' = [scheduler EXCEPT
                                  !.pc = "done",
                                  !.jobs = Append(@, csvOptions)]
    /\ UNCHANGED <<download, sqlDownload, chart, timers, tmp, bucket, events,
                   clock, queries>>
    /\ UNCHANGED restVars

\* CsvService.scheduleDownloadCsv: the permission check, then the job is
\* handed to schedulerClient, which may fail; the job id is returned.
ScheduleDownloadCsv ==
    /\ scheduler.pc = "idle"
    /\ \E canExport \in BOOLEAN :
       \E csvOptions \in ExportPayloads :
          IF ~canExport
          THEN scheduler' = [scheduler EXCEPT !.pc = "failed",
                                              !.error = "ForbiddenError"]
          ELSE \/ scheduler' = [scheduler EXCEPT
                                  !.pc = "done",
                                  !.jobs = Append(@, csvOptions)]
               \/ scheduler' = [scheduler EXCEPT !.pc = "failed",
                                                 !.error = "SchedulerError"]
    /\ UNCHANGED <<download, sqlDownload, chart, timers, tmp, bucket, events,
                   clock, queries>>
    /\ UNCHANGED restVars

InitExports ==
    /\ FilterIdle
    /\ truncation = [called |-> FALSE, value |-> FALSE]
    /\ fileIdCall = IdleFileIdCall
    /\ EmptyStores
    /\ CellsIdle
    /\ HookIdle
    /\ \E limit \in FlowCellsLimitChoices :
       \E s3Enabled \in BOOLEAN :
          lightdashConfig = [csvCellsLimit |-> limit, s3Enabled |-> s3Enabled]
    /\ \E request \in Requests :
          /\ IF request = "downloadCsv"
             THEN /\ download \in ExportPayloads
                  /\ results \in ExportResults
             ELSE /\ download = [IdleDownload EXCEPT !.pc = "off"]
                  /\ results = Rows(0, <<>>)
          /\ sqlDownload = [IdleSqlDownload EXCEPT
                                !.pc = IF request = "downloadSqlCsv"
                                       THEN "idle" ELSE "off"]
          /\ chart = [t \in Tiles |->
                        [IdleChartExport EXCEPT
                            !.pc = IF \/ request = "dashboard"
                                      \/ request = "chart" /\ t = "t1"
                                   THEN "idle" ELSE "off",
                            !.hasJobId = (request = "chart")]]
          /\ scheduler = [IdleScheduler EXCEPT
                            !.pc = IF request = "scheduleDownloadCsv"
                                   THEN "idle" ELSE "off"]

NextExports ==
    \/ ScheduleDownloadCsv
    \/ DownloadCsv
    \/ RunMetricQuery
    \/ StartWriteRows
    \/ PipelineRow
    \/ PipelineFinish
    \/ PipelineError
    \/ Deliver
    \/ UnlinkAndReturn
    \/ DownloadSqlCsv
    \/ RunSqlQuery
    \/ ConvertSqlQueryResultsToCsv
    \/ ConversionSettles
    \/ StoreSqlCsv
    \/ \E t \in Tiles : GetCsvForChart(t)
    \/ \E t \in Tiles : ChartRunMetricQuery(t)
    \/ \E t \in Tiles : ChartPipelineRow(t)
    \/ \E t \in Tiles : ChartPipelineFinish(t)
    \/ \E t \in Tiles : ChartPipelineError(t)
    \/ \E t \in Tiles : ChartUpload(t)
    \/ TimerFires
    \/ Tick

SpecExports == InitExports /\ [][NextExports]_vars


\* C11 as stated: on each of the three paths an export of more than 500
\* rows converts no row in the calling thread and has its one worker.
C11_AsStated ==
    /\ (sqlDownload.conversion.thread # "none" /\ sqlDownload.results.n > 500) =>
          /\ sqlDownload.conversion.mainThreadCalls = 0
          /\ Len(sqlDownload.conversion.workers) = 1
    /\ (download.pc \in {"streaming", "written", "uploaded", "done"}
            /\ download.rows.n > 500) =>
          /\ download.transformed = 0
          /\ Len(download.pipeline.workers) = 1
    /\ \A t \in Tiles :
          (chart[t].pc \in {"streaming", "written", "done"}
                /\ chart[t].rows.n > 500) =>
              /\ chart[t].transformed = 0
              /\ Len(chart[t].pipeline.workers) = 1

\* C12: when a stream of the chain failed, the promise of writeRowsToFile
\* is rejected with that error and not fulfilled with the file id, the
\* download has failed with that one error, and no URL was made for the
\* file and nothing was uploaded.
C12_SingleOutcome ==
    download.streamError # NoError =>
        /\ download.writePromise =
                [state |-> "rejected", value |-> download.streamError]
        /\ download.pc = "failed"
        /\ download.error = download.streamError
        /\ download.fileUrl = <<>>
        /\ download.pipeline.fileId \notin DOMAIN bucket
        /\ events = <<"download_results.started", "download_results.error">>

\* C12 witness: a stream failed after some rows, not all, were written.
C12_Witness ==
    /\ download.streamError # NoError
    /\ download.pc = "failed"
    /\ download.transformed >= 1
    /\ download.transformed < download.rows.n
    /\ Len(tmp[download.pipeline.fileId].records) = download.transformed

\* C13 as stated: after a failed export no file of it is left under /tmp.
C13_AsStated ==
    /\ download.pc = "failed" =>
          download.pipeline.fileId \notin DOMAIN tmp
    /\ \A t \in Tiles :
          chart[t].pc = "failed" =>
              chart[t].pipeline.fileId \notin DOMAIN tmp

\* A tile whose export has returned a file kept in object storage.
ChartDelivered(t) ==
    /\ chart[t].pc = "done"
    /\ chart[t].rows.n > 0

\* No other tile wrote a file of the same id.
FileIdOfItsOwn(t) ==
    \A other \in Tiles \ {t} :
        chart[other].pipeline.fileId # chart[t].pipeline.fileId

C18_AsStated ==
    \A t \in Tiles : \A other \in Tiles \ {t} :
        (/\ chart[t].pc \in {"streaming", "written", "done", "failed"}
         /\ chart[other].pc \in {"streaming", "written", "done", "failed"}
         /\ chart[t].pipeline.fileId # NoFileId
         /\ chart[other].pipeline.fileId # NoFileId) =>
            chart[t].pipeline.fileId # chart[other].pipeline.fileId

\* The field a cell of a record was made from.
CellField(cell) == IF cell[1] = "formatted" THEN cell[2][3] ELSE cell[3]

Range(seq) == {seq[i] : i \in 1..Len(seq)}

\* C19: the columns written are exactly the keys of the result rows that
\* are among the metrics, the dimensions and the names of the table
\* calculations of the query, each once; the header and every record have
\* one cell per column, made from that column's field.
C19_ColumnSelection ==
    (download.pc \in {"streaming", "written", "uploaded", "done"}
        /\ download.transformed >= 1
        /\ download.streamError = NoError) =>
        LET selected ==
                Range(download.metricQuery.metrics)
                \cup Range(download.metricQuery.dimensions)
                \cup {download.metricQuery.tableCalculations[i].name :
                        i \in 1..Len(download.metricQuery.tableCalculations)}
            columns == WrittenContent.columns
        IN  /\ Range(columns) = Range(download.rows.keys) \cap selected
            /\ Cardinality(Range(columns)) = Len(columns)
            /\ Len(WrittenContent.header) = Len(columns)
            /\ \A r \in 1..Len(WrittenContent.records) :
                  /\ Len(WrittenContent.records[r]) = Len(columns)
                  /\ \A i \in 1..Len(columns) :
                        CellField(WrittenContent.records[r][i]) = columns[i]

\* C19 witness: a result with a column that the query does not select was
\* written, without that column.
C19_Witness ==
    /\ download.pc = "written"
    /\ download.streamError = NoError
    /\ Len(download.rows.keys) = 3
    /\ download.rows.n >= 2
    /\ tmp[download.pipeline.fileId].columns = <<"orders_status", "orders_count">>

\* C20: two columns that both occur in columnOrder are written in the
\* order columnOrder gives them, and the header cell and the data cells of
\* a column are at the column's position.
C20_ColumnOrder ==
    (download.pc \in {"streaming", "written", "uploaded", "done"}
        /\ download.transformed >= 1
        /\ download.streamError = NoError) =>
        LET columns == WrittenContent.columns
            order == download.columnOrder
        IN  /\ \A i \in 1..Len(columns) : \A j \in 1..Len(columns) :
                  (Includes(order, columns[i]) /\ Includes(order, columns[j])) =>
                      (i < j <=> IndexOf(order, columns[i])
                                    < IndexOf(order, columns[j]))
            /\ \A i \in 1..Len(columns) :
                  /\ WrittenContent.header[i] =
                        HeaderLabel(columns[i], ItemMap,
                                    download.showTableNames,
                                    download.customLabels)
                  /\ \A r \in 1..Len(WrittenContent.records) :
                        CellField(WrittenContent.records[r][i]) = columns[i]

\* C20 witness: three columns were written in the order of columnOrder,
\* the reverse of the order of the keys of the rows.
C20_Witness ==
    /\ download.pc = "written"
    /\ download.streamError = NoError
    /\ download.rows.keys = <<"orders_status", "orders_count", "orders_total">>
    /\ download.columnOrder = <<"orders_total", "orders_count", "orders_status">>
    /\ tmp[download.pipeline.fileId].columns
            = <<"orders_total", "orders_count", "orders_status">>
    /\ Len(tmp[download.pipeline.fileId].records) >= 1

-----------------------------------------------------------------------------
(* CsvService.convertRowToCsv, on rows of typed values                     *)

\* A converted row has 1..MaxCells cells.
MaxCells == 2

CellIds ==
    <<"orders_created_at", "orders_order_date", "orders_amount",
      "orders_status", "orders_total", "orders_extra">>

\* The items of the cells: a timestamp and a date dimension, a metric with
\* a format, a string dimension, a table calculation with a format;
\* orders_extra has no item.
CellItemMap ==
    [id \in {"orders_created_at", "orders_order_date", "orders_amount",
             "orders_status", "orders_total"} |->
        IF id = "orders_created_at"
        THEN [fieldType |-> "dimension", type |-> "timestamp"]
        ELSE IF id = "orders_order_date"
        THEN [fieldType |-> "dimension", type |-> "date"]
        ELSE IF id = "orders_amount"
        THEN [fieldType |-> "metric", type |-> "number", format |-> "usd"]
        ELSE IF id = "orders_status"
        THEN [fieldType |-> "dimension", type |-> "string"]
        ELSE [name |-> "orders_total", format |-> "percent"]]

\* Dates the warehouse returns: 2024-01-02 03:04:05, 03:05:01 and
\* 2024-01-03 00:00:00, in milliseconds after the first.
InstantChoices == {0, 56789, 75355000}

\* The values the warehouse returns for a column: dates, null or nothing
\* for a timestamp or date column, and a number, a string, null or nothing
\* for any other.
CellValues(id) ==
    IF id \in {"orders_created_at", "orders_order_date"}
    THEN {NullValue, UndefinedValue} \cup {<<"instant", t>> : t \in InstantChoices}
    ELSE {NullValue, UndefinedValue, <<"number", 1234>>, <<"string", "abc">>}

\* The sequences of 1..MaxCells different field ids.
CellFieldIds ==
    {ids \in UNION {[1..n -> {CellIds[k] : k \in 1..Len(CellIds)}] : n \in 1..MaxCells} :
        \A i, j \in 1..Len(ids) : i # j => ids[i] # ids[j]}

CellRows(ids) ==
    {row \in [{ids[i] : i \in 1..Len(ids)} ->
                UNION {CellValues(CellIds[k]) : k \in 1..Len(CellIds)}] :
        \A id \in DOMAIN row : row[id] \in CellValues(id)}

InitCells ==
    /\ FilterIdle
    /\ lightdashConfig = [csvCellsLimit |-> NotSet, s3Enabled |-> FALSE]
    /\ TruncationIdle
    /\ ExportIdle
    /\ HookIdle
    /\ \E sortedFieldIds \in CellFieldIds :
       \E row \in CellRows(sortedFieldIds) :
       \E onlyRaw \in BOOLEAN :
          cellCall = [IdleCellCall EXCEPT !.row = row,
                                          !.itemMap = CellItemMap,
                                          !.onlyRaw = onlyRaw,
                                          !.sortedFieldIds = sortedFieldIds]

CallConvertRowToCsv ==
    /\ ~cellCall.called
    /\ cellCall' = [cellCall EXCEPT
                      !.called = TRUE,
                      !.value = convertRowToCsv(cellCall.row, cellCall.itemMap,
                                                cellCall.onlyRaw,
                                                cellCall.sortedFieldIds)]
    /\ UNCHANGED <<heap, compiledHeap, call, probe, lightdashConfig, results,
                   truncation, fileIdCall, hook>>
    /\ UNCHANGED exportVars

NextCells ==
    \/ CallConvertRowToCsv

SpecCells == InitCells /\ [][NextCells]_vars

\* The number a sequence of decimal digits writes.
RECURSIVE ReadNumber(_)
ReadNumber(digits) ==
    IF Len(digits) = 0 THEN 0
    ELSE 10 * ReadNumber(SubSeq(digits, 1, Len(digits) - 1))
            + (CHOOSE d \in 0..9 : Digits[d + 1] = digits[Len(digits)])

AllDigits(text) == \A i \in 1..Len(text) : \E d \in 1..10 : Digits[d] = text[i]

\* The text is YYYY-MM-DD for the day of the moment.
IsDateOf(text, time) ==
    /\ Len(text) = 10
    /\ text[5] = "-" /\ text[8] = "-"
    /\ AllDigits(SubSeq(text, 1, 4)) /\ AllDigits(SubSeq(text, 6, 7))
    /\ AllDigits(SubSeq(text, 9, 10))
    /\ ReadNumber(SubSeq(text, 1, 4)) = time.year
    /\ ReadNumber(SubSeq(text, 6, 7)) = time.month
    /\ ReadNumber(SubSeq(text, 9, 10)) = time.date

\* The text is YYYY-MM-DD HH:mm:ss for the moment.
IsDateTimeOf(text, time) ==
    /\ Len(text) = 19
    /\ IsDateOf(SubSeq(text, 1, 10), time)
    /\ text[11] = " " /\ text[14] = ":" /\ text[17] = ":"
    /\ AllDigits(SubSeq(text, 12, 13)) /\ AllDigits(SubSeq(text, 15, 16))
    /\ AllDigits(SubSeq(text, 18, 19))
    /\ ReadNumber(SubSeq(text, 12, 13)) = time.hour /\ time.hour < 24
    /\ ReadNumber(SubSeq(text, 15, 16)) = time.minute /\ time.minute < 60
    /\ ReadNumber(SubSeq(text, 18, 19)) = time.second /\ time.second < 60

CellItem(i) ==
    IF cellCall.sortedFieldIds[i] \in DOMAIN cellCall.itemMap
    THEN cellCall.itemMap[cellCall.sortedFieldIds[i]]
    ELSE UndefinedItem

CellData(i) == cellCall.row[cellCall.sortedFieldIds[i]]

CellIsNullish(i) == CellData(i) = NullValue \/ CellData(i) = UndefinedValue

\* C21: a value that is neither null nor undefined is written as
\* YYYY-MM-DD HH:mm:ss in a field of type timestamp and as YYYY-MM-DD in a
\* field of type date, in raw and in formatted mode alike; in any other
\* item the value itself is written in raw mode, and the value under the
\* format of the item in formatted mode.
C21_CellFormatting ==
    cellCall.called =>
        /\ Len(cellCall.value) = Len(cellCall.sortedFieldIds)
        /\ \A i \in 1..Len(cellCall.sortedFieldIds) :
            ~CellIsNullish(i) =>
                IF isField(CellItem(i)) /\ CellItem(i).type = "timestamp"
                THEN /\ cellCall.value[i][1] = "text"
                     /\ IsDateTimeOf(cellCall.value[i][2], Moment(CellData(i)[2]))
                ELSE IF isField(CellItem(i)) /\ CellItem(i).type = "date"
                THEN /\ cellCall.value[i][1] = "text"
                     /\ IsDateOf(cellCall.value[i][2], Moment(CellData(i)[2]))
                ELSE IF cellCall.onlyRaw
                THEN cellCall.value[i] = CellData(i)
                ELSE cellCall.value[i] = formatItemValue(CellItem(i), CellData(i))

\* C21 witness: in raw mode, a timestamp of midnight was written as
\* 2024-01-03 00:00:00 and the number next to it as it is.
C21_Witness ==
    /\ cellCall.called
    /\ cellCall.onlyRaw
    /\ cellCall.sortedFieldIds = <<"orders_created_at", "orders_amount">>
    /\ cellCall.row["orders_created_at"] = <<"instant", 75355000>>
    /\ cellCall.value =
        << <<"text", <<"2", "0", "2", "4", "-", "0", "1", "-", "0", "3", " ",
                       "0", "0", ":", "0", "0", ":", "0", "0">> >>,
           <<"number", 1234>> >>

\* C22: null and undefined are written as they are, in a field of any
\* type and in both modes: neither as a date nor under a format.
C22_NullPassThrough ==
    cellCall.called =>
        \A i \in 1..Len(cellCall.sortedFieldIds) :
            CellIsNullish(i) => cellCall.value[i] = CellData(i)

\* C22 witness: in formatted mode, the null of a timestamp field and the
\* undefined of a date field were written as null and undefined.
C22_Witness ==
    /\ cellCall.called
    /\ ~cellCall.onlyRaw
    /\ cellCall.sortedFieldIds = <<"orders_created_at", "orders_order_date">>
    /\ cellCall.row["orders_created_at"] = NullValue
    /\ cellCall.row["orders_order_date"] = UndefinedValue
    /\ cellCall.value = <<NullValue, UndefinedValue>>

-----------------------------------------------------------------------------
(* Errors of the warehouse                                                 *)

\* The export ran a query that the warehouse failed.
WarehouseFailed(by) ==
    \E i \in 1..Len(queries) : queries[i].by = by /\ queries[i].failed

\* The number of queries the export ran.
QueriesBy(by) == Cardinality({i \in 1..Len(queries) : queries[i].by = by})

\* C23: when the warehouse fails the query of an export, the export ends
\* with that same error, thrown to its caller; it ran the query once, it
\* formatted no row, and it created, wrote and uploaded no file (and set no
\* timer) -- for downloadCsv, downloadSqlCsv and getCsvForChart.
C23_WarehouseError ==
    /\ WarehouseFailed("downloadCsv") =>
        /\ download.pc = "failed"
        /\ download.error = "WarehouseError"
        /\ QueriesBy("downloadCsv") = 1
        /\ download.transformed = 0
        /\ download.pipeline = NoPipeline
        /\ download.fileUrl = <<>>
        /\ tmp = <<>> /\ bucket = <<>>
    /\ WarehouseFailed("downloadSqlCsv") =>
        /\ sqlDownload.pc = "failed"
        /\ sqlDownload.error = "WarehouseError"
        /\ QueriesBy("downloadSqlCsv") = 1
        /\ sqlDownload.conversion = NoConversion
        /\ sqlDownload.csvContent = NoCsv
        /\ sqlDownload.fileUrl = <<>>
        /\ tmp = <<>> /\ bucket = <<>>
    /\ \A t \in Tiles :
        WarehouseFailed(t) =>
            /\ chart[t].pc = "failed"
            /\ chart[t].error = "WarehouseError"
            /\ QueriesBy(t) = 1
            /\ chart[t].transformed = 0
            /\ chart[t].pipeline = NoPipeline
            /\ chart[t].attachment = NoAttachment
            /\ \A timer \in timers : timer.tile # t
            /\ \A fileId \in DOMAIN tmp \cup DOMAIN bucket :
                \E other \in Tiles \ {t} : chart[other].pipeline.fileId = fileId

\* C23 witness: the warehouse failed the query of a downloadCsv job, after
\* the started event; the job has failed with the warehouse's error and
\* the error event is tracked.
C23_Witness ==
    /\ WarehouseFailed("downloadCsv")
    /\ download.pc = "failed"
    /\ download.error = "WarehouseError"
    /\ events = <<"download_results.started", "download_results.error">>
    /\ queries = <<Query("downloadCsv", TRUE)>>

-----------------------------------------------------------------------------
(* The end of the streaming stage                                          *)

Settled(promise) == promise.state \in {"fulfilled", "rejected"}

\* C24: with streams that make progress, a download that is streaming comes
\* to a settled promise -- fulfilled with the file id (COMPLETE) or
\* rejected with the error of the stream (FAILED) -- and a settled promise
\* never changes again, so that it is never both.
C24_OneTerminalState ==
    /\ (download.pc = "streaming") ~>
            \/ /\ download.writePromise.state = "fulfilled"
               /\ download.writePromise.value = download.pipeline.fileId
            \/ /\ download.writePromise.state = "rejected"
               /\ download.writePromise.value = download.streamError
    /\ [][Settled(download.writePromise) =>
            download'.writePromise = download.writePromise]_vars

\* C24 witness: a download streamed three rows and its promise is
\* fulfilled with the file id.
C24_Witness ==
    /\ download.pc = "written"
    /\ download.rows.n = 3
    /\ download.transformed = 3
    /\ download.writePromise =
            [state |-> "fulfilled", value |-> download.pipeline.fileId]

-----------------------------------------------------------------------------
(* The truncated flag of an export                                         *)

\* The file id begins with csv-incomplete_results-.
Marked(fileId) ==
    /\ Len(fileId) >= Len(CsvPrefix \o IncompleteResults)
    /\ SubSeq(fileId, 1, Len(CsvPrefix \o IncompleteResults))
            = CsvPrefix \o IncompleteResults

-----------------------------------------------------------------------------
(* The columns counted and the columns written                             *)

\* C26 as stated: the number of columns couldBeTruncated counts, the keys
\* of the first row, is the number of columns writeRowsToFile writes for
\* the same export.
C26_AsStated ==
    (download.pipeline.fileId # NoFileId /\ ~download.pipeline.threw) =>
        Len(download.rows.keys) = Len(download.pipeline.sortedFieldIds)

-----------------------------------------------------------------------------
(* A query without rows                                                    *)

\* The warehouse has answered the query of the export.
WarehouseAnswered(by) ==
    \E i \in 1..Len(queries) : queries[i].by = by /\ ~queries[i].failed

\* C27 as stated: for a query that returns no row, neither downloadCsv
\* nor getCsvForChart calls writeRowsToFile: no file is made under /tmp
\* and no error is raised for the missing first row.
C27_AsStated ==
    /\ (WarehouseAnswered("downloadCsv") /\ download.rows.n = 0) =>
        /\ download.pipeline.fileId = NoFileId
        /\ download.error # "TypeError"
        /\ tmp = <<>>
    /\ \A t \in Tiles :
        (WarehouseAnswered(t) /\ chart[t].rows.n = 0) =>
            /\ chart[t].pipeline.fileId = NoFileId
            /\ chart[t].pc = "done"
            /\ chart[t].error = "none"

-----------------------------------------------------------------------------
(* The analytics events of a job                                           *)

TerminalEvents == {"download_results.completed", "download_results.error"}

\* The export that tracks events has returned or thrown.
JobEnded ==
    \/ download.pc \in {"done", "failed"}
    \/ sqlDownload.pc \in {"done", "failed"}
    \/ \E t \in Tiles : chart[t].hasJobId /\ chart[t].pc \in {"done", "failed"}

\* C28 as stated (one job tracks events in a run): a completed or error
\* event comes only after the started event of the job, there is at most
\* one of the two, and a job that has ended after its started event has one.
C28_AsStated ==
    /\ \A i \in 1..Len(events) :
        events[i] \in TerminalEvents =>
            \E j \in 1..(i - 1) : events[j] = "download_results.started"
    /\ Cardinality({i \in 1..Len(events) : events[i] \in TerminalEvents}) <= 1
    /\ (JobEnded /\ \E j \in 1..Len(events) :
                        events[j] = "download_results.started") =>
            \E i \in 1..Len(events) : events[i] \in TerminalEvents

-----------------------------------------------------------------------------
(* The permission to export                                                *)

NothingWrittenOrUploaded == tmp = <<>> /\ bucket = <<>> /\ timers = {}

\* C29: a call of downloadSqlCsv, downloadCsv or scheduleDownloadCsv by a
\* user who cannot manage ExportCsv has failed with ForbiddenError, and it
\* has run no query against the warehouse, queued no job, and written and
\* uploaded no file.
C29_AuthorizationFirst ==
    /\ download.error = "ForbiddenError" =>
        /\ download.pc = "failed"
        /\ queries = <<>> /\ scheduler.jobs = <<>>
        /\ download.pipeline = NoPipeline /\ download.fileUrl = <<>>
        /\ NothingWrittenOrUploaded
    /\ sqlDownload.error = "ForbiddenError" =>
        /\ sqlDownload.pc = "failed"
        /\ queries = <<>> /\ scheduler.jobs = <<>>
        /\ sqlDownload.conversion = NoConversion
        /\ sqlDownload.fileUrl = <<>>
        /\ NothingWrittenOrUploaded
    /\ scheduler.error = "ForbiddenError" =>
        /\ scheduler.pc = "failed"
        /\ queries = <<>> /\ scheduler.jobs = <<>>
        /\ NothingWrittenOrUploaded

\* C29 witness: scheduleDownloadCsv was refused, and the queue is empty.
C29_Witness ==
    /\ scheduler.pc = "failed"
    /\ scheduler.error = "ForbiddenError"
    /\ scheduler.jobs = <<>>
    /\ queries = <<>>

-----------------------------------------------------------------------------
(* useMetricFlowQueryResults                                               *)
(*                                                                         *)
(* The hook is a function of the state of two react-query queries; the     *)
(* model keeps that state (status, data, error, isFetching of each), the   *)
(* setInterval of the results query and the requests sent, and moves it    *)
(* as react-query does for the options the hook passes.  The caller's      *)
(* option objects are taken not to override enabled or refetchInterval.    *)

\* The create-query request is sent at most MaxQueries times, and the
\* interval sends at most MaxPolls requests.
MaxQueries == 2

MaxPolls == 2

PollInterval == 500

\* QueryStatus
QueryStatuses == {"PENDING", "RUNNING", "SUCCESSFUL", "FAILED"}

TerminalStatuses == {"SUCCESSFUL", "FAILED"}

\* enabled of the create query: !!projectUuid && !!query?.metrics.length
CreateEnabled(h) == h.projectUuid /\ h.metrics > 0

\* enabled of the results query:
\* !!projectUuid && !!queryId && metricFlowQuery.isSuccess
ResultsEnabled(h) ==
    /\ h.projectUuid
    /\ h.metricFlowQuery.data.defined
    /\ h.metricFlowQuery.status = "success"

\* Faulty variant: a failed query is polled on.
refetchIntervalUntilSuccessful(refetchData) ==
    IF refetchData = Undefined \/ refetchData = "SUCCESSFUL"
    THEN 0 ELSE PollInterval

\* refetchInterval of the results query (0 for false)
refetchInterval(refetchData) ==
    IF refetchData = Undefined \/ refetchData \in TerminalStatuses
    THEN 0 ELSE PollInterval

\* What the hook returns.
useMetricFlowQueryResults(h) ==
    LET metricFlowQuery == h.metricFlowQuery
        metricFlowQueryResultsQuery == h.metricFlowQueryResultsQuery
        isResultsQueryRefetching ==
            /\ metricFlowQueryResultsQuery.data # Undefined
            /\ metricFlowQueryResultsQuery.data \notin TerminalStatuses
    IN  IF isResultsQueryRefetching
        THEN [isLoading |-> TRUE, error |-> "null", data |-> Undefined,
              status |-> "loading"]
        ELSE IF metricFlowQueryResultsQuery.data = "FAILED"
        THEN [isLoading |-> FALSE, error |-> "ApiError 500",
              data |-> Undefined, status |-> "error"]
        ELSE [isLoading |-> \/ metricFlowQuery.status = "loading"
                            \/ metricFlowQueryResultsQuery.status = "loading",
              error |-> IF metricFlowQuery.error # "null"
                        THEN metricFlowQuery.error
                        ELSE metricFlowQueryResultsQuery.error,
              data |-> metricFlowQueryResultsQuery.data,
              status |-> IF metricFlowQuery.status = "loading"
                         THEN metricFlowQuery.status
                         ELSE metricFlowQueryResultsQuery.status]

\* A request of getMetricFlowQueryResults(projectUuid, queryId): what sent
\* it, the status fetched last, the status of the create query, and the
\* time the interval had run.
ResultsRequest(h, cause) ==
    [queryId |-> h.metricFlowQuery.data, cause |-> cause,
     last |-> h.metricFlowQueryResultsQuery.data,
     createStatus |-> h.metricFlowQuery.status,
     elapsed |-> h.interval.elapsed]

\* A fetch starts: a query without data is loading.
StartFetch(query, noData) ==
    [query EXCEPT !.isFetching = TRUE,
                  !.status = IF noData THEN "loading" ELSE @,
                  !.error = IF noData THEN "null" ELSE @]

\* setInterval follows refetchInterval, while the query is enabled.
Timer(h) ==
    LET period == IF ResultsEnabled(h)
                  THEN refetchInterval(h.metricFlowQueryResultsQuery.data)
                  ELSE 0
    IN  IF period = h.interval.period THEN h.interval
        ELSE [period |-> period, elapsed |-> 0]

\* The hook runs again after the create query has changed: the results
\* query of a new query id is a new query, and a query that has become
\* enabled fetches.
Render(old, new) ==
    LET keyChanged == new.metricFlowQuery.data # old.queryKey
        keyed == IF keyChanged
                 THEN [new EXCEPT
                         !.queryKey = new.metricFlowQuery.data,
                         !.metricFlowQueryResultsQuery = IdleResultsQuery]
                 ELSE new
        fetches == /\ ResultsEnabled(keyed)
                   /\ keyChanged \/ ~ResultsEnabled(old)
                   /\ ~keyed.metricFlowQueryResultsQuery.isFetching
        fetching == IF fetches
                    THEN [keyed EXCEPT
                            !.metricFlowQueryResultsQuery =
                                StartFetch(@, @.data = Undefined),
                            !.requests =
                                Append(@, ResultsRequest(keyed, "enabled"))]
                    ELSE keyed
    IN  [fetching EXCEPT !.interval = Timer(fetching)]

\* The component mounts: the create query fetches if it is enabled.
MountedHook(projectUuid, metrics) ==
    LET h == [IdleHook EXCEPT !.mounted = TRUE,
                              !.projectUuid = projectUuid,
                              !.metrics = metrics]
    IN  IF CreateEnabled(h)
        THEN [h EXCEPT !.metricFlowQuery = StartFetch(@, TRUE),
                       !.created = 1]
        ELSE h

InitHook ==
    /\ FilterIdle
    /\ lightdashConfig = [csvCellsLimit |-> NotSet, s3Enabled |-> FALSE]
    /\ TruncationIdle
    /\ ExportIdle
    /\ CellsIdle
    /\ \E projectUuid \in BOOLEAN :
       \E metrics \in 0..1 :
          hook = MountedHook(projectUuid, metrics)

HookUnchanged ==
    /\ UNCHANGED <<heap, compiledHeap, call, probe, lightdashConfig, results,
                   truncation, fileIdCall, cellCall>>
    /\ UNCHANGED exportVars

\* createMetricFlowQuery answers with a new query id.
CreateQuerySucceeds ==
    /\ hook.metricFlowQuery.isFetching
    /\ hook' = Render(hook,
                  [hook EXCEPT !.metricFlowQuery =
                      [status |-> "success", data |-> Set(hook.created),
                       error |-> "null", isFetching |-> FALSE]])
    /\ HookUnchanged

\* createMetricFlowQuery fails: the data of an earlier answer stays.
CreateQueryFails ==
    /\ hook.metricFlowQuery.isFetching
    /\ hook' = Render(hook,
                  [hook EXCEPT !.metricFlowQuery.status = "error",
                               !.metricFlowQuery.error = "ApiError",
                               !.metricFlowQuery.isFetching = FALSE])
    /\ HookUnchanged

\* The caller calls the refetch the hook returns: metricFlowQuery.refetch.
Refetch ==
    /\ hook.mounted
    /\ ~hook.metricFlowQuery.isFetching
    /\ hook.created < MaxQueries
    /\ hook' = Render(hook,
                  [hook EXCEPT
                      !.metricFlowQuery = StartFetch(@, ~@.data.defined),
                      !.created = @ + 1])
    /\ HookUnchanged

\* getMetricFlowQueryResults answers with the status of the query.
ResultsFetchSucceeds ==
    /\ hook.metricFlowQueryResultsQuery.isFetching
    /\ \E status \in QueryStatuses :
          LET fetched == [hook EXCEPT !.metricFlowQueryResultsQuery =
                            [status |-> "success", data |-> status,
                             error |-> "null", isFetching |-> FALSE]]
          IN  hook' = [fetched EXCEPT !.interval = Timer(fetched)]
    /\ HookUnchanged

\* getMetricFlowQueryResults fails: the data fetched before stays.
ResultsFetchFails ==
    /\ hook.metricFlowQueryResultsQuery.isFetching
    /\ LET fetched == [hook EXCEPT
                         !.metricFlowQueryResultsQuery.status = "error",
                         !.metricFlowQueryResultsQuery.error = "ApiError",
                         !.metricFlowQueryResultsQuery.isFetching = FALSE]
       IN  hook' = [fetched EXCEPT !.interval = Timer(fetched)]
    /\ HookUnchanged

\* Time passes on the interval.
HookTick ==
    /\ hook.interval.period > 0
    /\ hook.interval.elapsed < hook.interval.period
    /\ hook' = [hook EXCEPT !.interval.elapsed = @ + PollInterval \div 2]
    /\ HookUnchanged

\* The interval is over: the results are fetched again, unless a fetch is
\* under way.
IntervalFires ==
    /\ hook.interval.period > 0
    /\ hook.interval.elapsed >= hook.interval.period
    /\ Cardinality({i \in 1..Len(hook.requests) :
                        hook.requests[i].cause = "interval"}) < MaxPolls
    /\ hook' = IF hook.metricFlowQueryResultsQuery.isFetching
               THEN [hook EXCEPT !.interval.elapsed = 0]
               ELSE [hook EXCEPT
                        !.interval.elapsed = 0,
                        !.metricFlowQueryResultsQuery = StartFetch(@, FALSE),
                        !.requests = Append(@, ResultsRequest(hook, "interval"))]
    /\ HookUnchanged

NextHook ==
    \/ CreateQuerySucceeds
    \/ CreateQueryFails
    \/ Refetch
    \/ ResultsFetchSucceeds
    \/ ResultsFetchFails
    \/ HookTick
    \/ IntervalFires

SpecHook == InitHook /\ [][NextHook]_vars

LastStatus == hook.metricFlowQueryResultsQuery.data

=============================================================================
